---- MODULE Spec2Model ----
(***************************************************************************)
(* A model of the notecard-workspaces whiteboard: the reactive state store *)
(* (src/src/state/atoms.ts), the import dialog, the view controller        *)
(* (usePanZoom), the drag controller (useDraggable) and the resize         *)
(* controller (useResizable).                                              *)
(*                                                                         *)
(* Numbers of the program are JavaScript doubles.  They are modelled as    *)
(* exact rationals <<n, d>> (d > 0, lowest terms), so that the arithmetic  *)
(* of the handlers is computed as written, without rounding.               *)
(***************************************************************************)
EXTENDS Integers, Sequences, FiniteSets, TLC

(***************************************************************************)
(* Bounds of the model.                                                    *)
(***************************************************************************)
\* number of identifiers crypto.randomUUID() hands out in one run
MaxIds == 2
\* number of store operations in one run
MaxStoreOps == 4
\* number of view-controller events in one run
MaxViewOps == 3
\* number of pointer events on the cards in one run
MaxCardOps == 3
\* touch identifiers are 0 .. MaxTouches - 1
MaxTouches == 2

(***************************************************************************)
(* Rational arithmetic.                                                    *)
(***************************************************************************)
Abs(n) == IF n < 0 THEN -n ELSE n

RECURSIVE GCD(_, _)
GCD(a, b) == IF b = 0 THEN a ELSE GCD(b, a % b)

\* the rational n/d in lowest terms with a positive denominator (d # 0)
Frac(n, d) ==
  LET g == GCD(Abs(n), Abs(d))
      s == IF d < 0 THEN -1 ELSE 1
  IN  <<(s * n) \div g, (s * d) \div g>>

R(n) == <<n, 1>>
\* sums are taken over the least common denominator, to keep the products small
RAdd(a, b) ==
  LET g == GCD(a[2], b[2])
  IN  Frac(a[1] * (b[2] \div g) + b[1] * (a[2] \div g), (a[2] \div g) * b[2])
RSub(a, b) ==
  LET g == GCD(a[2], b[2])
  IN  Frac(a[1] * (b[2] \div g) - b[1] * (a[2] \div g), (a[2] \div g) * b[2])
\* factors are cancelled crosswise first, to keep the products small
RMul(a, b) ==
  LET g1 == GCD(Abs(a[1]), b[2])
      g2 == GCD(Abs(b[1]), a[2])
  IN  Frac((a[1] \div g1) * (b[1] \div g2), (a[2] \div g2) * (b[2] \div g1))
\* a / b for b # 0
RDiv(a, b) == RMul(a, IF b[1] < 0 THEN <<-b[2], -b[1]>> ELSE <<b[2], b[1]>>)
RLe(a, b) == a[1] * b[2] <= b[1] * a[2]
RLt(a, b) == a[1] * b[2] < b[1] * a[2]
RIsZero(a) == a[1] = 0

Point(x, y) == [x |-> x, y |-> y]
P(x, y) == Point(R(x), R(y))
PSub(p, q) == Point(RSub(p.x, q.x), RSub(p.y, q.y))
PAdd(p, q) == Point(RAdd(p.x, q.x), RAdd(p.y, q.y))
PScale(p, k) == Point(RMul(p.x, k), RMul(p.y, k))
PDiv(p, k) == Point(RDiv(p.x, k), RDiv(p.y, k))

(***************************************************************************)
(* State.                                                                  *)
(***************************************************************************)
VARIABLES
  \* --- reactive state store (atoms.ts) ---
  appState,            \* appStateAtom: [workspaces, currentWorkspaceId]
  interactionOrder,    \* interactionOrderAtom: sequence of card ids
  lastCreatedCardId,   \* lastCreatedCardIdAtom
  viewportSize,        \* viewportSizeAtom: [width, height]
  nextId,              \* number of identifiers crypto.randomUUID() has handed out
  \* --- view controller (usePanZoom) ---
  pan,                 \* live pan (useState)
  zoom,                \* live zoom (useState)
  isPanning,           \* isPanning.current
  isPinching,          \* isPinching.current
  startPanPoint,       \* startPanPoint.current
  touchIdentifier,     \* touchIdentifier.current (NoTouch for null)
  pinchTouches,        \* pinchTouches.current as a set of identifiers ({} for null)
  initialPinchState,   \* initialPinchState.current (NoPinch for null)
  listeners,           \* the window listeners the view controller has attached
  cursor,              \* containerRef.current.style.cursor
  touches,             \* the touches on the screen: identifier -> client point
  canvasMounted,       \* the Workspace component, which calls usePanZoom, is mounted
  \* --- the hooks of the mounted cards (useDraggable, useResizable, Card) ---
  drag,                \* card id -> [isDragging, dragStartOffset, touchIdentifier]
  resize,              \* card id -> [isResizing, resizeStartPointer, resizeStartSize]
  editing,             \* the cards whose isEditing is true
  frames,              \* callbacks handed to requestAnimationFrame, not yet run
  dragStart,           \* card id -> what the card's drag started from
  bodyStyle,           \* document.body.style: [userSelect, cursor]
  \* --- the import of the sidebar (SidebarContent, ImportDialog) ---
  isImportDialogOpen,  \* isImportDialogOpen (useState)
  importedWorkspaces,  \* importedWorkspaces (useState), as a sequence of entries
  toastsPushed,        \* what the last operation appended to toastQueueAtom
  \* --- bookkeeping of the run ---
  ops,                 \* number of operations so far
  thrown,              \* the last operation ended with an uncaught exception
  lastOp,              \* the last operation and its arguments
  before               \* values the last operation started from

storeVars == <<appState, interactionOrder, lastCreatedCardId, viewportSize, nextId>>
cardVars == <<drag, resize, editing, frames, dragStart, bodyStyle>>
importVars == <<isImportDialogOpen, importedWorkspaces>>
viewVars == <<pan, zoom, isPanning, isPinching, startPanPoint, touchIdentifier,
              pinchTouches, initialPinchState, listeners, cursor, touches,
              canvasMounted>>

(***************************************************************************)
(* Identifiers.  An id is a pair <<origin, n>>: "uuid" ids are handed out  *)
(* by crypto.randomUUID(), "file" ids are read from an imported document.  *)
(***************************************************************************)
Null == <<"null", 0>>
Uuid(n) == <<"uuid", n>>
FileId(n) == <<"file", n>>
\* atoms.ts:22, the id of the very first workspace
initialWorkspaceId == Uuid(0)

DefaultViewState == [pan |-> P(0, 0), zoom |-> R(1)]
Size(w, h) == [width |-> R(w), height |-> R(h)]

(***************************************************************************)
(* Helpers for JavaScript objects and arrays.  An object is a function     *)
(* from its keys; the insertion order of the keys of appState.workspaces,  *)
(* which Object.keys() returns, is kept in appState.keyOrder.              *)
(***************************************************************************)
EmptyObj == [k \in {} |-> TRUE]
Keys(obj) == DOMAIN obj
Has(obj, k) == k \in DOMAIN obj
\* { ...obj, [k]: v }
Put(obj, k, v) == [x \in (DOMAIN obj) \cup {k} |-> IF x = k THEN v ELSE obj[x]]
\* const { [k]: _, ...rest } = obj
Without(obj, k) == [x \in (DOMAIN obj) \ {k} |-> obj[x]]
\* arr.filter(id => id !== k)
FilterOut(arr, k) == SelectSeq(arr, LAMBDA e : e # k)
Range(arr) == {arr[i] : i \in DOMAIN arr}
\* a workspace object read from a file may lack the cardOrder property
HasCardOrder(ws) == "cardOrder" \in DOMAIN ws

\* atoms.ts:26-37
initialAppState ==
  [workspaces |->
     (initialWorkspaceId :>
        [id |-> initialWorkspaceId, name |-> "Default Workspace",
         cards |-> EmptyObj, viewState |-> DefaultViewState, cardOrder |-> <<>>]),
   keyOrder |-> <<initialWorkspaceId>>,
   currentWorkspaceId |-> initialWorkspaceId]

\* { ...prev, workspaces: { ...prev.workspaces, [id]: ws } }
SetWorkspace(prev, id, ws) ==
  [prev EXCEPT !.workspaces = Put(prev.workspaces, id, ws),
               !.keyOrder = IF Has(prev.workspaces, id) THEN @ ELSE Append(@, id)]

\* state.workspaces[state.currentWorkspaceId] is an object
HasCurrentWorkspace(state) ==
  /\ state.currentWorkspaceId # Null
  /\ Has(state.workspaces, state.currentWorkspaceId)

\* currentWorkspaceAtom (atoms.ts:66-70), where HasCurrentWorkspace
CurrentWorkspaceOf(state) == state.workspaces[state.currentWorkspaceId]

\* currentCardsAtom (atoms.ts:72-75)
CurrentCardsOf(state) ==
  IF HasCurrentWorkspace(state) THEN CurrentWorkspaceOf(state).cards ELSE EmptyObj

\* currentViewStateAtom (atoms.ts:77-81)
CurrentViewStateOf(state) ==
  IF HasCurrentWorkspace(state) THEN CurrentWorkspaceOf(state).viewState
  ELSE DefaultViewState

(***************************************************************************)
(* The store's state transition functions: what each write atom passes to  *)
(* set(appStateAtom, prev => ...).                                         *)
(***************************************************************************)
\* updateViewStateAtom (atoms.ts:144-166); newViewState is a Partial<ViewState>
MergeViewState(old, newViewState) ==
  [f \in {"pan", "zoom"} |->
     IF f \in DOMAIN newViewState THEN newViewState[f] ELSE old[f]]

updateViewStateFn(prev, newViewState) ==
  LET currentId == prev.currentWorkspaceId IN
  IF currentId = Null THEN prev
  ELSE IF ~Has(prev.workspaces, currentId) THEN prev
  ELSE LET currentWorkspace == prev.workspaces[currentId] IN
       SetWorkspace(prev, currentId,
         [currentWorkspace EXCEPT
            !.viewState = MergeViewState(currentWorkspace.viewState, newViewState)])

\* the card addCardAtom builds, with its corner where the pointer is
NewCardUncentered(newCardId, text, position) ==
  [id |-> newCardId, text |-> text, position |-> position, size |-> Size(200, 100)]

\* the card addCardAtom builds (atoms.ts:175-188)
NewCard(newCardId, text, position) ==
  [id |-> newCardId, text |-> text,
   position |-> Point(RSub(position.x, RDiv(R(200), R(2))),
                      RSub(position.y, RDiv(R(100), R(2)))),
   size |-> Size(200, 100)]

\* addCardAtom's updater throws: [...currentWorkspace.cardOrder] of undefined
addCardThrows(prev) ==
  /\ HasCurrentWorkspace(prev)
  /\ ~HasCardOrder(CurrentWorkspaceOf(prev))

\* addCardAtom's updater (atoms.ts:190-207), where it does not throw
addCardFn(prev, newCardId, text, position) ==
  LET currentId == prev.currentWorkspaceId IN
  IF ~Has(prev.workspaces, currentId) THEN prev
  ELSE LET currentWorkspace == prev.workspaces[currentId] IN
       SetWorkspace(prev, currentId,
         [currentWorkspace EXCEPT
            !.cards = Put(@, newCardId, NewCard(newCardId, text, position)),
            !.cardOrder = Append(@, newCardId)])

\* the guard shared by the card updaters: !currentWorkspace?.cards[cardId]
CardExists(prev, cardId) ==
  /\ HasCurrentWorkspace(prev)
  /\ Has(CurrentWorkspaceOf(prev).cards, cardId)

\* { ...prev, ..[currentId]: { ...currentWorkspace, cards: { ..., [cardId]: card } } }
SetCard(prev, cardId, card) ==
  LET currentWorkspace == CurrentWorkspaceOf(prev) IN
  SetWorkspace(prev, prev.currentWorkspaceId,
    [currentWorkspace EXCEPT !.cards = Put(@, cardId, card)])

\* updateCardPositionAtom (atoms.ts:218-243)
updateCardPositionFn(prev, cardId, position) ==
  IF prev.currentWorkspaceId = Null THEN prev
  ELSE IF ~CardExists(prev, cardId) THEN prev
  ELSE SetCard(prev, cardId,
         [CurrentWorkspaceOf(prev).cards[cardId] EXCEPT !.position = position])

\* updateCardTextAtom without its guard: { ...undefined, text } is { text }
updateCardTextNoGuard(prev, cardId, text) ==
  IF ~HasCurrentWorkspace(prev) THEN prev
  ELSE SetCard(prev, cardId,
         IF CardExists(prev, cardId)
         THEN [CurrentWorkspaceOf(prev).cards[cardId] EXCEPT !.text = text]
         ELSE [text |-> text])

\* updateCardTextAtom (atoms.ts:246-271)
updateCardTextFn(prev, cardId, text) ==
  IF prev.currentWorkspaceId = Null THEN prev
  ELSE IF ~CardExists(prev, cardId) THEN prev
  ELSE SetCard(prev, cardId,
         [CurrentWorkspaceOf(prev).cards[cardId] EXCEPT !.text = text])

\* updateCardSizeAtom (atoms.ts:274-299)
updateCardSizeFn(prev, cardId, size) ==
  IF prev.currentWorkspaceId = Null THEN prev
  ELSE IF ~CardExists(prev, cardId) THEN prev
  ELSE SetCard(prev, cardId,
         [CurrentWorkspaceOf(prev).cards[cardId] EXCEPT !.size = size])

\* deleteCardAtom's updater throws: currentWorkspace.cardOrder.filter of undefined
deleteCardThrows(prev, cardId) ==
  /\ CardExists(prev, cardId)
  /\ ~HasCardOrder(CurrentWorkspaceOf(prev))

\* deleteCardAtom's updater (atoms.ts:308-323), where it does not throw
deleteCardFn(prev, cardId) ==
  IF prev.currentWorkspaceId = Null THEN prev
  ELSE IF ~CardExists(prev, cardId) THEN prev
  ELSE LET currentWorkspace == CurrentWorkspaceOf(prev) IN
       SetWorkspace(prev, prev.currentWorkspaceId,
         [currentWorkspace EXCEPT
            !.cards = Without(@, cardId),
            !.cardOrder = FilterOut(@, cardId)])

\* the workspace createWorkspaceAtom builds (atoms.ts:335-351)
NewWorkspace(newId, defaultCardId, name) ==
  [id |-> newId, name |-> name,
   cards |-> (defaultCardId :>
                [id |-> defaultCardId, text |-> "",
                 position |-> P(100, 100), size |-> Size(200, 100)]),
   viewState |-> DefaultViewState,
   cardOrder |-> <<defaultCardId>>]

\* createWorkspaceAtom's updater (atoms.ts:353-360)
createWorkspaceFn(prev, newId, defaultCardId, name) ==
  [SetWorkspace(prev, newId, NewWorkspace(newId, defaultCardId, name))
     EXCEPT !.currentWorkspaceId = newId]

\* switchWorkspaceAtom (atoms.ts:367-378)
switchWorkspaceFn(prev, workspaceId) ==
  IF ~Has(prev.workspaces, workspaceId) THEN prev
  ELSE [prev EXCEPT !.currentWorkspaceId = workspaceId]

\* deleteWorkspaceAtom without the re-pointing of currentWorkspaceId
deleteWorkspaceKeepCurrent(prev, workspaceId) ==
  IF ~Has(prev.workspaces, workspaceId) THEN prev
  ELSE IF Cardinality(Keys(prev.workspaces)) <= 1 THEN prev
  ELSE [workspaces |-> Without(prev.workspaces, workspaceId),
        keyOrder |-> FilterOut(prev.keyOrder, workspaceId),
        currentWorkspaceId |-> prev.currentWorkspaceId]

\* deleteWorkspaceAtom without the last-workspace guard
deleteWorkspaceNoGuard(prev, workspaceId) ==
  IF ~Has(prev.workspaces, workspaceId) THEN prev
  ELSE LET remainingKeys == FilterOut(prev.keyOrder, workspaceId) IN
       [workspaces |-> Without(prev.workspaces, workspaceId),
        keyOrder |-> remainingKeys,
        currentWorkspaceId |->
          IF prev.currentWorkspaceId = workspaceId
          THEN (IF Len(remainingKeys) > 0 THEN remainingKeys[1] ELSE Null)
          ELSE prev.currentWorkspaceId]

\* deleteWorkspaceAtom (atoms.ts:381-409)
deleteWorkspaceFn(prev, workspaceId) ==
  IF ~Has(prev.workspaces, workspaceId) THEN prev
  ELSE IF Cardinality(Keys(prev.workspaces)) <= 1 THEN prev
  ELSE LET remainingWorkspaces == Without(prev.workspaces, workspaceId)
           remainingKeys == FilterOut(prev.keyOrder, workspaceId)
           finalCurrentId ==
             IF prev.currentWorkspaceId = workspaceId
             THEN (IF Len(remainingKeys) > 0 THEN remainingKeys[1] ELSE Null)
             ELSE prev.currentWorkspaceId
       IN [workspaces |-> remainingWorkspaces,
           keyOrder |-> remainingKeys,
           currentWorkspaceId |-> finalCurrentId]

\* bringCardToFrontAtom with the other ids put in reverse
bringCardToFrontReversed(currentOrder, cardId) ==
  LET rest == FilterOut(currentOrder, cardId) IN
  Append([i \in 1..Len(rest) |-> rest[Len(rest) + 1 - i]], cardId)

\* bringCardToFrontAtom without the removal of the id
bringCardToFrontNoFilter(currentOrder, cardId) == Append(currentOrder, cardId)

\* bringCardToFrontAtom (atoms.ts:434-442)
bringCardToFrontFn(currentOrder, cardId) ==
  Append(FilterOut(currentOrder, cardId), cardId)

\* updateCardOrderAtom (atoms.ts:517-539); the workspaceId argument is a string
updateCardOrderFn(prev, workspaceId, newOrder) ==
  IF ~Has(prev.workspaces, workspaceId) THEN prev
  ELSE SetWorkspace(prev, workspaceId,
         [f \in (DOMAIN prev.workspaces[workspaceId]) \cup {"cardOrder"} |->
            IF f = "cardOrder" THEN newOrder ELSE prev.workspaces[workspaceId][f]])

(***************************************************************************)
(* Import (ImportDialog.tsx).  workspacesToImport is the object the        *)
(* sidebar hands to the dialog, as the sequence of its entries             *)
(* [key, ws] in property order; checked is the set of ticked names.        *)
(***************************************************************************)
EntryKeys(entries) == {entries[i].key : i \in DOMAIN entries}
EntryAt(entries, k) == (CHOOSE i \in DOMAIN entries : entries[i].key = k)
Lookup(entries, k) == entries[EntryAt(entries, k)].ws

\* Object.keys(selection) restricted to the ids put into selectedWorkspaces
\* (ImportDialog.tsx:23-31 and 41-46): selection is keyed by ws.id, the
\* workspace is looked up by that id in workspacesToImport
RECURSIVE SelectedIds(_, _, _, _)
SelectedIds(rest, entries, checked, seen) ==
  IF rest = <<>> THEN <<>>
  ELSE LET id == Head(rest).ws.id IN
       IF id \in seen THEN SelectedIds(Tail(rest), entries, checked, seen)
       ELSE (IF id \in checked /\ id \in EntryKeys(entries) THEN <<id>> ELSE <<>>)
            \o SelectedIds(Tail(rest), entries, checked, seen \cup {id})

\* handleConfirmImport's updater (ImportDialog.tsx:54-77)
RECURSIVE MergeImported(_, _, _)
MergeImported(prev, entries, ids) ==
  IF ids = <<>> THEN prev
  ELSE MergeImported(SetWorkspace(prev, Head(ids), Lookup(entries, Head(ids))),
                     entries, Tail(ids))

\* handleConfirmImport's updater with every workspace of the file taken,
\* ticked or not
confirmImportAll(prev, entries, checked) ==
  MergeImported(prev, entries,
    SelectedIds(entries, entries, checked \cup EntryKeys(entries), {}))

confirmImportFn(prev, entries, checked) ==
  MergeImported(prev, entries, SelectedIds(entries, entries, checked, {}))

(***************************************************************************)
(* Inputs of the store operations.                                         *)
(***************************************************************************)
CardPositions == {P(0, 0), P(60, 60)}
NewText == "a"
NewPosition == P(60, 60)
NewSize == Size(300, 200)
ViewportSizes == {Size(0, 0), Size(800, 600)}
WorkspaceNames == {"New Workspace"}

\* every card id an operation may name: the keys of the cards of every
\* workspace, and one id that is the key of no card
AllCardIds(state) == UNION {Keys(state.workspaces[w].cards) : w \in Keys(state.workspaces)}
CardIdArgs == AllCardIds(appState) \cup {Uuid(nextId + 1)}
\* every workspace id an operation may name: the keys of workspaces, and one
\* id that is the key of no workspace
WorkspaceIdArgs == Keys(appState.workspaces) \cup {Uuid(nextId + 1)}

\* workspace objects found in import files (all pass the checks of
\* handleFileChange: they have name, cards and viewState)
FileCard == [id |-> FileId(2), text |-> "a", position |-> P(0, 0), size |-> Size(200, 100)]
FileWsGood(id) ==
  [id |-> id, name |-> "Imported", cards |-> (FileId(2) :> FileCard),
   viewState |-> DefaultViewState, cardOrder |-> <<FileId(2)>>]
FileWsEmpty(id) ==
  [id |-> id, name |-> "Imported", cards |-> EmptyObj,
   viewState |-> DefaultViewState, cardOrder |-> <<>>]
\* written by a version of the program whose workspaces had no cardOrder
FileWsNoOrder(id) ==
  [id |-> id, name |-> "Imported", cards |-> (FileId(2) :> FileCard),
   viewState |-> DefaultViewState]
FileKeys == {initialWorkspaceId, FileId(1)}
Entry(k, w) == [key |-> k, ws |-> w]
ImportFiles ==
  { <<Entry(initialWorkspaceId, FileWsGood(initialWorkspaceId))>>,
    <<Entry(FileId(1), FileWsGood(FileId(1)))>>,
    <<Entry(FileId(1), FileWsNoOrder(FileId(1)))>>,
    <<Entry(FileId(1), FileWsEmpty(FileId(1)))>>,
    <<Entry(initialWorkspaceId, FileWsEmpty(initialWorkspaceId)),
      Entry(FileId(1), FileWsGood(FileId(1)))>>,
    \* an entry whose id property is not its key
    <<Entry(FileId(1), FileWsGood(initialWorkspaceId))>> }
\* the ticked names: all (the dialog's default), one, none
Selections == {FileKeys, {FileId(1)}, {}}

\* the orders the reorder handle can produce from a workspace's cards: some
\* order of the cards and its reverse
RECURSIVE SomeOrder(_)
SomeOrder(S) ==
  IF S = {} THEN <<>>
  ELSE LET x == CHOOSE e \in S : TRUE IN <<x>> \o SomeOrder(S \ {x})
Reverse(q) == [i \in 1..Len(q) |-> q[Len(q) + 1 - i]]
Reorders(S) == {SomeOrder(S), Reverse(SomeOrder(S))}

(***************************************************************************)
(* Store operations: one action per write atom.                            *)
(***************************************************************************)
Op(name, args) == [op |-> name, args |-> args]
\* what a store operation started from
StoreBefore == [appState |-> appState, interactionOrder |-> interactionOrder, op |-> lastOp]
\* one more operation of a run of at most max operations
Budget(max) == ops < max /\ ops' = ops + 1
StoreStep ==
  /\ Budget(MaxStoreOps)
  /\ before' = StoreBefore
  /\ UNCHANGED <<viewVars, cardVars>>
\* an operation that pushes no toast and leaves the import dialog alone
StoreBudget ==
  /\ StoreStep
  /\ toastsPushed' = <<>>
  /\ UNCHANGED importVars

\* addCardAtom (atoms.ts:169-215)
AddCard(text, position) ==
  /\ StoreBudget
  /\ nextId < MaxIds
  /\ LET newCardId == Uuid(nextId + 1) IN
     /\ nextId' = nextId + 1
     /\ lastOp' = Op("addCard", <<newCardId, text, position>>)
     /\ IF appState.currentWorkspaceId = Null
        THEN /\ thrown' = FALSE
             /\ UNCHANGED <<appState, interactionOrder, lastCreatedCardId>>
        ELSE IF addCardThrows(appState)
        THEN /\ thrown' = TRUE
             /\ UNCHANGED <<appState, interactionOrder, lastCreatedCardId>>
        ELSE /\ thrown' = FALSE
             /\ appState' = addCardFn(appState, newCardId, text, position)
             /\ interactionOrder' = Append(interactionOrder, newCardId)
             /\ lastCreatedCardId' = newCardId
  /\ UNCHANGED viewportSize

\* updateCardPositionAtom (atoms.ts:218-243)
UpdateCardPosition(cardId, position) ==
  /\ StoreBudget
  /\ appState' = updateCardPositionFn(appState, cardId, position)
  /\ thrown' = FALSE
  /\ lastOp' = Op("updateCardPosition", <<cardId, position>>)
  /\ UNCHANGED <<interactionOrder, lastCreatedCardId, viewportSize, nextId>>

\* updateCardTextAtom (atoms.ts:246-271)
UpdateCardText(cardId, text) ==
  /\ StoreBudget
  /\ appState' = updateCardTextFn(appState, cardId, text)
  /\ thrown' = FALSE
  /\ lastOp' = Op("updateCardText", <<cardId, text>>)
  /\ UNCHANGED <<interactionOrder, lastCreatedCardId, viewportSize, nextId>>

\* updateCardSizeAtom (atoms.ts:274-299)
UpdateCardSize(cardId, size) ==
  /\ StoreBudget
  /\ appState' = updateCardSizeFn(appState, cardId, size)
  /\ thrown' = FALSE
  /\ lastOp' = Op("updateCardSize", <<cardId, size>>)
  /\ UNCHANGED <<interactionOrder, lastCreatedCardId, viewportSize, nextId>>

\* deleteCardAtom (atoms.ts:302-327)
DeleteCard(cardId) ==
  /\ StoreBudget
  /\ lastOp' = Op("deleteCard", <<cardId>>)
  /\ IF appState.currentWorkspaceId = Null
     THEN /\ thrown' = FALSE
          /\ UNCHANGED <<appState, interactionOrder>>
     ELSE IF deleteCardThrows(appState, cardId)
     THEN /\ thrown' = TRUE
          /\ UNCHANGED <<appState, interactionOrder>>
     ELSE /\ thrown' = FALSE
          /\ appState' = deleteCardFn(appState, cardId)
          /\ interactionOrder' = FilterOut(interactionOrder, cardId)
  /\ UNCHANGED <<lastCreatedCardId, viewportSize, nextId>>

\* createWorkspaceAtom (atoms.ts:330-364)
CreateWorkspace(name) ==
  /\ StoreBudget
  /\ nextId + 1 < MaxIds
  /\ LET newId == Uuid(nextId + 1)
         defaultCardId == Uuid(nextId + 2)
     IN /\ appState' = createWorkspaceFn(appState, newId, defaultCardId, name)
        /\ lastCreatedCardId' = defaultCardId
        /\ lastOp' = Op("createWorkspace", <<newId, defaultCardId, name>>)
  /\ nextId' = nextId + 2
  /\ thrown' = FALSE
  /\ UNCHANGED <<interactionOrder, viewportSize>>

\* switchWorkspaceAtom (atoms.ts:367-378)
SwitchWorkspace(workspaceId) ==
  /\ StoreBudget
  /\ appState' = switchWorkspaceFn(appState, workspaceId)
  /\ thrown' = FALSE
  /\ lastOp' = Op("switchWorkspace", <<workspaceId>>)
  /\ UNCHANGED <<interactionOrder, lastCreatedCardId, viewportSize, nextId>>

\* deleteWorkspaceAtom (atoms.ts:381-409)
DeleteWorkspace(workspaceId) ==
  /\ StoreBudget
  /\ appState' = deleteWorkspaceFn(appState, workspaceId)
  /\ thrown' = FALSE
  /\ lastOp' = Op("deleteWorkspace", <<workspaceId>>)
  /\ UNCHANGED <<interactionOrder, lastCreatedCardId, viewportSize, nextId>>

\* bringCardToFrontAtom (atoms.ts:434-442)
BringCardToFront(cardId) ==
  /\ StoreBudget
  /\ interactionOrder' = bringCardToFrontFn(interactionOrder, cardId)
  /\ thrown' = FALSE
  /\ lastOp' = Op("bringCardToFront", <<cardId>>)
  /\ UNCHANGED <<appState, lastCreatedCardId, viewportSize, nextId>>

\* updateCardOrderAtom (atoms.ts:517-539), called with a reordering of the
\* workspace's cards (the sidebar's reorder handle, README.md:71)
UpdateCardOrder(workspaceId) ==
  /\ StoreBudget
  /\ \E newOrder \in
        (IF Has(appState.workspaces, workspaceId)
         THEN Reorders(Keys(appState.workspaces[workspaceId].cards)) ELSE {<<>>}) :
       /\ appState' = updateCardOrderFn(appState, workspaceId, newOrder)
       /\ lastOp' = Op("updateCardOrder", <<workspaceId, newOrder>>)
  /\ thrown' = FALSE
  /\ UNCHANGED <<interactionOrder, lastCreatedCardId, viewportSize, nextId>>

\* handleConfirmImport (ImportDialog.tsx:40-81)
ConfirmImport(entries, checked) ==
  /\ StoreStep
  /\ LET ids == SelectedIds(entries, entries, checked, {}) IN
     IF ids = <<>>
     THEN /\ UNCHANGED appState
          /\ toastsPushed' = <<"Please select at least one workspace to import.">>
     ELSE /\ appState' = confirmImportFn(appState, entries, checked)
          /\ toastsPushed' =
               IF \E i \in DOMAIN ids : Has(appState.workspaces, ids[i])
               THEN <<"Some imported workspaces had conflicting IDs">>
               ELSE <<"Selected workspaces imported successfully!">>
  /\ UNCHANGED importVars
  /\ thrown' = FALSE
  /\ lastOp' = Op("confirmImport", <<entries, checked>>)
  /\ UNCHANGED <<interactionOrder, lastCreatedCardId, viewportSize, nextId>>

\* the viewport's resize observer (Workspace.tsx:31-55)
SetViewportSize(size) ==
  /\ StoreBudget
  /\ viewportSize' = size
  /\ thrown' = FALSE
  /\ lastOp' = Op("setViewportSize", <<size>>)
  /\ UNCHANGED <<appState, interactionOrder, lastCreatedCardId, nextId>>

(***************************************************************************)
(* The import of the sidebar, step by step: the file input's               *)
(* handleFileChange (src/unnamed/part_011:133-183) and the import dialog   *)
(* it opens (ImportDialog.tsx).  A file's text is modelled by what         *)
(* JSON.parse makes of it.  ConfirmImport above is the two steps in one,   *)
(* for a file that opens the dialog: the dialog is modal, and closed again *)
(* when its import is done.                                                *)
(***************************************************************************)
\* a JSON value that is no object (a number, a string, null), as an entry
JsonPrimitive == [primitive |-> TRUE]
\* text that JSON.parse rejects
NotJson == [json |-> FALSE, object |-> FALSE, entries |-> <<>>]
\* JSON that is no object: a number, a string, null, an array
JsonNonObject == [json |-> TRUE, object |-> FALSE, entries |-> <<>>]
\* a JSON object, as its entries in property order
JsonObject(entries) == [json |-> TRUE, object |-> TRUE, entries |-> entries]

\* ws && typeof ws === 'object' && 'name' in ws && 'cards' in ws &&
\* 'viewState' in ws (part_011:149)
IsValidWorkspace(ws) ==
  /\ "primitive" \notin DOMAIN ws
  /\ "name" \in DOMAIN ws /\ "cards" \in DOMAIN ws /\ "viewState" \in DOMAIN ws

\* reader.onload with every entry taken for a workspace
handleFileChangeUnchecked(content) ==
  IF ~content.json THEN [ok |-> FALSE, workspaces |-> <<>>]
  ELSE [ok |-> TRUE, workspaces |-> content.entries]
\* reader.onload (part_011:138-174): whether the dialog opens, and with what
handleFileChangeFn(content) ==
  IF ~content.json THEN [ok |-> FALSE, workspaces |-> <<>>]
  ELSE IF ~content.object THEN [ok |-> FALSE, workspaces |-> <<>>]
  ELSE LET validWorkspaces == SelectSeq(content.entries, LAMBDA e : IsValidWorkspace(e.ws))
       IN IF validWorkspaces = <<>> THEN [ok |-> FALSE, workspaces |-> <<>>]
          ELSE [ok |-> TRUE, workspaces |-> validWorkspaces]

\* the message of the error reader.onload catches (part_011:166-168)
FileErrorMessage(content) ==
  IF ~content.json THEN "Failed to import file: Unexpected token"
  ELSE IF ~content.object
  THEN "Failed to import file: Invalid file format. Expected JSON object of workspaces."
  ELSE "Failed to import file: No valid workspace data found in the file."

\* handleFileChange (part_011:133-183), for a file that was read
FileChange(content) ==
  /\ StoreStep
  /\ ~isImportDialogOpen
  /\ lastOp' = Op("fileChange", <<content>>)
  /\ LET outcome == handleFileChangeFn(content) IN
     IF outcome.ok
     THEN /\ importedWorkspaces' = outcome.workspaces
          /\ isImportDialogOpen' = TRUE
          /\ toastsPushed' = <<>>
     ELSE /\ toastsPushed' = <<FileErrorMessage(content)>>
          /\ UNCHANGED importVars
  /\ thrown' = FALSE
  /\ UNCHANGED storeVars

\* handleConfirmImport (ImportDialog.tsx:40-81) of the open dialog; onClose is
\* handleCloseImportDialog (part_011:185-188)
DialogConfirmImport(checked) ==
  /\ StoreStep
  /\ isImportDialogOpen
  /\ lastOp' = Op("confirmImport", <<importedWorkspaces, checked>>)
  /\ LET ids == SelectedIds(importedWorkspaces, importedWorkspaces, checked, {}) IN
     IF ids = <<>>
     THEN /\ toastsPushed' = <<"Please select at least one workspace to import.">>
          /\ UNCHANGED <<appState, importVars>>
     ELSE /\ appState' = confirmImportFn(appState, importedWorkspaces, checked)
          /\ toastsPushed' =
               IF \E i \in DOMAIN ids : Has(appState.workspaces, ids[i])
               THEN <<"Some imported workspaces had conflicting IDs">>
               ELSE <<"Selected workspaces imported successfully!">>
          /\ isImportDialogOpen' = FALSE
          /\ importedWorkspaces' = <<>>
  /\ thrown' = FALSE
  /\ UNCHANGED <<interactionOrder, lastCreatedCardId, viewportSize, nextId>>

\* the dialog's Cancel: handleCloseImportDialog (part_011:185-188)
DialogClose ==
  /\ StoreStep
  /\ isImportDialogOpen
  /\ lastOp' = Op("closeImport", <<>>)
  /\ isImportDialogOpen' = FALSE
  /\ importedWorkspaces' = <<>>
  /\ toastsPushed' = <<>>
  /\ thrown' = FALSE
  /\ UNCHANGED storeVars

\* a workspace object without viewState
FileWsNoView(id) == [id |-> id, name |-> "Imported", cards |-> EmptyObj]
\* what the chosen files hold
FileContents ==
  { NotJson, JsonNonObject, JsonObject(<<>>),
    JsonObject(<<Entry(FileId(1), JsonPrimitive)>>),
    JsonObject(<<Entry(FileId(1), FileWsNoView(FileId(1)))>>),
    JsonObject(<<Entry(initialWorkspaceId, JsonPrimitive),
                 Entry(FileId(1), FileWsGood(FileId(1)))>>) }
  \cup {JsonObject(f) : f \in ImportFiles}

\* the four sample cards of addInitialSampleCardsAtom (atoms.ts:471-497)
SampleCards(n, viewState) ==
  LET centerX == RDiv(RSub(RDiv(viewportSize.width, R(2)), viewState.pan.x), viewState.zoom)
      centerY == RDiv(RSub(RDiv(viewportSize.height, R(2)), viewState.pan.y), viewState.zoom)
      card(i, text, dx, dy, w, h) ==
        [id |-> Uuid(n + i), text |-> text,
         position |-> Point(RAdd(centerX, R(dx)), RAdd(centerY, R(dy))),
         size |-> Size(w, h)]
  IN  (Uuid(n + 1) :> card(1, "Welcome", -300, -100, 200, 100))
      @@ (Uuid(n + 2) :> card(2, "Main Idea", 100, -80, 200, 100))
      @@ (Uuid(n + 3) :> card(3, "Supporting Detail", -125, 50, 250, 150))
      @@ (Uuid(n + 4) :> card(4, "Next Steps", 100, 70, 200, 100))

\* addInitialSampleCardsAtom (atoms.ts:445-514)
AddInitialSampleCards ==
  /\ StoreBudget
  /\ nextId < MaxIds
  /\ thrown' = FALSE
  /\ lastOp' = Op("addInitialSampleCards", <<>>)
  /\ LET currentId == appState.currentWorkspaceId IN
     IF \/ currentId = Null \/ currentId # initialWorkspaceId
        \/ ~Has(appState.workspaces, currentId)
     THEN UNCHANGED <<appState, nextId>>
     ELSE LET currentWorkspace == appState.workspaces[currentId] IN
          IF \/ Keys(currentWorkspace.cards) # {}
             \/ RIsZero(viewportSize.width) \/ RIsZero(viewportSize.height)
          THEN UNCHANGED <<appState, nextId>>
          ELSE /\ appState' =
                    SetWorkspace(appState, currentId,
                      [f \in (DOMAIN currentWorkspace) \cup {"cardOrder"} |->
                         IF f = "cards" THEN SampleCards(nextId, currentWorkspace.viewState)
                         ELSE IF f = "cardOrder"
                         THEN <<Uuid(nextId + 1), Uuid(nextId + 2),
                                Uuid(nextId + 3), Uuid(nextId + 4)>>
                         ELSE currentWorkspace[f]])
               /\ nextId' = nextId + 4
  /\ UNCHANGED <<interactionOrder, lastCreatedCardId, viewportSize>>

(***************************************************************************)
(* View controller: usePanZoom, the variant with pinch zoom                *)
(* (src/unnamed/part_003:1-275).  A render and its effects complete        *)
(* between two events, so the closures of the handlers see the live pan    *)
(* and zoom of the last event.                                             *)
(***************************************************************************)
NoTouch == -1
NoPinch == [distance |-> R(0), midpoint |-> P(0, 0), pan |-> P(0, 0), zoom |-> R(0),
            set |-> FALSE]

\* the largest k in lo..hi with k * k <= n
RECURSIVE SqrtSearch(_, _, _)
SqrtSearch(n, lo, hi) ==
  IF lo >= hi THEN lo
  ELSE LET mid == (lo + hi + 1) \div 2 IN
       IF mid <= n \div mid THEN SqrtSearch(n, mid, hi) ELSE SqrtSearch(n, lo, mid - 1)
ISqrt(n) == SqrtSearch(n, 0, n)
\* Math.sqrt of a rational whose numerator and denominator are squares; of
\* another rational, the roots of the two rounded down
RSqrt(a) == Frac(ISqrt(a[1]), ISqrt(a[2]))

\* getDistance (part_003:12-14)
getDistance(p1, p2) ==
  LET dx == RSub(p2.x, p1.x)
      dy == RSub(p2.y, p1.y)
  IN  RSqrt(RAdd(RMul(dx, dx), RMul(dy, dy)))

\* getMidpoint (part_003:17-22)
getMidpoint(p1, p2) ==
  Point(RDiv(RAdd(p1.x, p2.x), R(2)), RDiv(RAdd(p1.y, p2.y), R(2)))

RMax(a, b) == IF RLe(a, b) THEN b ELSE a
RMin(a, b) == IF RLe(a, b) THEN a ELSE b
MinZoom == Frac(1, 10)
MaxZoom == R(10)
\* the zoom asked for, taken as it is
ClampZoomNone(newZoom) == newZoom
\* Math.max(0.1, Math.min(newZoom, 10)) (part_003:73 and 179)
ClampZoom(newZoom) == RMax(MinZoom, RMin(newZoom, MaxZoom))

\* const zoomFactor = 1.1 (part_003:177)
WheelZoomFactor == Frac(11, 10)

\* the zoom a wheel event asks for (part_003:176-178)
WheelNewZoom(z, deltaY) ==
  IF -deltaY > 0 THEN RMul(z, WheelZoomFactor) ELSE RDiv(z, WheelZoomFactor)

\* the pan computed from the screen offset of the pointer, not divided by the
\* old zoom
WheelNewPanUnscaled(pointer, oldPan, oldZoom, clampedZoom) ==
  PSub(pointer, PScale(PSub(pointer, oldPan), clampedZoom))
\* the pan that keeps the workspace point under the pointer in place
\* (part_003:183-187)
WheelNewPan(pointer, oldPan, oldZoom, clampedZoom) ==
  LET pointUnderPointer == PDiv(PSub(pointer, oldPan), oldZoom)
  IN  PSub(pointer, PScale(pointUnderPointer, clampedZoom))

\* the pan and zoom of a pinch move (part_003:65-78)
PinchNewZoom(initial, p1, p2) ==
  ClampZoom(RMul(initial.zoom, RDiv(getDistance(p1, p2), initial.distance)))

\* the pinch pan taken about the initial midpoint, not the current one
PinchNewPanInitialMidpoint(initial, p1, p2) ==
  LET initialMidpointWorkspace == PDiv(PSub(initial.midpoint, initial.pan), initial.zoom)
  IN  PSub(initial.midpoint, PScale(initialMidpointWorkspace, PinchNewZoom(initial, p1, p2)))

PinchNewPan(initial, p1, p2) ==
  LET currentMidpoint == getMidpoint(p1, p2)
      initialMidpointWorkspace == PDiv(PSub(initial.midpoint, initial.pan), initial.zoom)
  IN  PSub(currentMidpoint, PScale(initialMidpointWorkspace, PinchNewZoom(initial, p1, p2)))

MouseListeners == {"mousemove", "mouseup", "mouseleave"}
TouchListeners == {"touchmove", "touchend", "touchcancel"}

\* the two elements of a set of two touch identifiers
Lo(S) == CHOOSE a \in S : \A b \in S : a <= b
Hi(S) == CHOOSE a \in S : \A b \in S : a >= b

ViewBefore == [pan |-> pan, zoom |-> zoom, viewState |-> CurrentViewStateOf(appState),
               isPanning |-> isPanning, isPinching |-> isPinching,
               touchIdentifier |-> touchIdentifier, listeners |-> listeners]

\* an event of the view controller: the store is touched only through appState
ViewEvent(name, args) ==
  /\ Budget(MaxViewOps)
  /\ lastOp' = Op(name, args)
  /\ before' = ViewBefore
  /\ thrown' = FALSE
  /\ toastsPushed' = <<>>
  /\ UNCHANGED <<interactionOrder, lastCreatedCardId, viewportSize, nextId>>
  /\ UNCHANGED <<cardVars, importVars, canvasMounted>>

\* handleWheel (part_003:171-194); pointer is the client point less the
\* container's origin
handleWheel(deltaY, pointer) ==
  /\ LET clampedZoom == ClampZoom(WheelNewZoom(zoom, deltaY))
         newPan == WheelNewPan(pointer, pan, zoom, clampedZoom)
     IN /\ zoom' = clampedZoom
        /\ pan' = newPan
        /\ appState' = updateViewStateFn(appState, [pan |-> newPan, zoom |-> clampedZoom])
  /\ UNCHANGED <<isPanning, isPinching, startPanPoint, touchIdentifier, pinchTouches,
                 initialPinchState, listeners, cursor, touches>>

Wheel(deltaY, pointer) ==
  /\ ViewEvent("wheel", <<deltaY, pointer>>)
  /\ handleWheel(deltaY, pointer)

\* handleMouseDown without the test for a card above the target
MouseDownAnyTarget(onCard, button, client) ==
  /\ ViewEvent("mousedown", <<onCard, button, client>>)
  /\ IF button # 0 \/ isPanning \/ isPinching
     THEN UNCHANGED <<isPanning, startPanPoint, cursor, listeners>>
     ELSE /\ isPanning' = TRUE
          /\ startPanPoint' = PSub(client, pan)
          /\ cursor' = "move"
          /\ listeners' = listeners \cup MouseListeners
  /\ UNCHANGED <<appState, pan, zoom, isPinching, touchIdentifier, pinchTouches,
                 initialPinchState, touches>>
\* handleMouseDown (part_003:197-211)
MouseDown(onCard, button, client) ==
  /\ ViewEvent("mousedown", <<onCard, button, client>>)
  /\ IF onCard \/ button # 0 \/ isPanning \/ isPinching
     THEN UNCHANGED <<isPanning, startPanPoint, cursor, listeners>>
     ELSE /\ isPanning' = TRUE
          /\ startPanPoint' = PSub(client, pan)
          /\ cursor' = "move"
          /\ listeners' = listeners \cup MouseListeners
  /\ UNCHANGED <<appState, pan, zoom, isPinching, touchIdentifier, pinchTouches,
                 initialPinchState, touches>>

\* handleMouseMoveGlobal that also hands every new pan to the store
MouseMoveGlobalCommits(client) ==
  /\ "mousemove" \in listeners
  /\ ViewEvent("mousemove", <<client>>)
  /\ pan' = IF isPanning THEN PSub(client, startPanPoint) ELSE pan
  /\ appState' = IF isPanning
                 THEN updateViewStateFn(appState, [pan |-> PSub(client, startPanPoint),
                                                   zoom |-> zoom])
                 ELSE appState
  /\ UNCHANGED <<zoom, isPanning, isPinching, startPanPoint, touchIdentifier,
                 pinchTouches, initialPinchState, listeners, cursor, touches>>
\* handleMouseMoveGlobal (part_003:44-52), attached to window
MouseMoveGlobal(client) ==
  /\ "mousemove" \in listeners
  /\ ViewEvent("mousemove", <<client>>)
  /\ pan' = IF isPanning THEN PSub(client, startPanPoint) ELSE pan
  /\ UNCHANGED <<appState, zoom, isPanning, isPinching, startPanPoint, touchIdentifier,
                 pinchTouches, initialPinchState, listeners, cursor, touches>>

\* endPanInteraction that hands nothing to the store
EndPanInteractionNoCommit ==
  IF isPanning \/ isPinching
  THEN /\ listeners' = listeners \ (MouseListeners \cup TouchListeners)
       /\ isPanning' = FALSE
       /\ isPinching' = FALSE
       /\ touchIdentifier' = NoTouch
       /\ initialPinchState' = NoPinch
       /\ pinchTouches' = {}
       /\ cursor' = "auto"
       /\ UNCHANGED appState
  ELSE UNCHANGED <<appState, listeners, isPanning, isPinching, touchIdentifier,
                   initialPinchState, pinchTouches, cursor>>
\* endPanInteraction (part_003:141-163)
EndPanInteraction ==
  IF isPanning \/ isPinching
  THEN /\ appState' = updateViewStateFn(appState, [pan |-> pan, zoom |-> zoom])
       /\ listeners' = listeners \ (MouseListeners \cup TouchListeners)
       /\ isPanning' = FALSE
       /\ isPinching' = FALSE
       /\ touchIdentifier' = NoTouch
       /\ initialPinchState' = NoPinch
       /\ pinchTouches' = {}
       /\ cursor' = "auto"
  ELSE UNCHANGED <<appState, listeners, isPanning, isPinching, touchIdentifier,
                   initialPinchState, pinchTouches, cursor>>

\* handleMouseUpOrLeaveGlobal (part_003:106-110), attached to window
MouseUpGlobal(button) ==
  /\ "mouseup" \in listeners
  /\ ViewEvent("mouseup", <<button>>)
  /\ IF button = 0 /\ isPanning
     THEN EndPanInteraction
     ELSE UNCHANGED <<appState, listeners, isPanning, isPinching, touchIdentifier,
                      initialPinchState, pinchTouches, cursor>>
  /\ UNCHANGED <<pan, zoom, startPanPoint, touches>>

\* handleTouchStart (part_003:213-256): the fingers in started touch the
\* screen; event.touches is every touch then on the screen
TouchStart(onCard, started) ==
  /\ started # EmptyObj
  /\ Keys(started) \cap Keys(touches) = {}
  /\ ViewEvent("touchstart", <<onCard, started>>)
  /\ touches' = started @@ touches
  /\ LET all == started @@ touches IN
     IF onCard \/ isPanning \/ isPinching
     THEN UNCHANGED <<isPanning, isPinching, startPanPoint, touchIdentifier,
                      pinchTouches, initialPinchState, listeners, cursor>>
     ELSE IF Cardinality(Keys(all)) = 2
     THEN /\ isPinching' = TRUE
          /\ pinchTouches' = Keys(all)
          /\ initialPinchState' =
               [distance |-> getDistance(all[Lo(Keys(all))], all[Hi(Keys(all))]),
                midpoint |-> getMidpoint(all[Lo(Keys(all))], all[Hi(Keys(all))]),
                pan |-> pan, zoom |-> zoom, set |-> TRUE]
          /\ listeners' = listeners \cup TouchListeners
          /\ UNCHANGED <<isPanning, startPanPoint, touchIdentifier, cursor>>
     ELSE IF Cardinality(Keys(all)) = 1
     THEN /\ isPanning' = TRUE
          /\ touchIdentifier' = Lo(Keys(all))
          /\ startPanPoint' = PSub(all[Lo(Keys(all))], pan)
          /\ cursor' = "move"
          /\ listeners' = listeners \cup TouchListeners
          /\ UNCHANGED <<isPinching, pinchTouches, initialPinchState>>
     ELSE UNCHANGED <<isPanning, isPinching, startPanPoint, touchIdentifier,
                      pinchTouches, initialPinchState, listeners, cursor>>
  /\ UNCHANGED <<appState, pan, zoom>>

\* handleTouchMoveGlobal without the return on a zero initial distance: the
\* quotient is Infinity and the clamped zoom 10
TouchMoveGlobalNoZeroSkip(id, client) ==
  /\ id \in Keys(touches)
  /\ ViewEvent("touchmove", <<id, client>>)
  /\ touches' = [touches EXCEPT ![id] = client]
  /\ LET all == [touches EXCEPT ![id] = client] IN
     IF "touchmove" \notin listeners
     THEN UNCHANGED <<pan, zoom>>
     ELSE IF isPinching /\ Cardinality(Keys(all)) = 2 /\ pinchTouches # {}
             /\ initialPinchState.set
     THEN IF pinchTouches \subseteq Keys(all)
          THEN IF RIsZero(initialPinchState.distance)
               THEN /\ zoom' = MaxZoom
                    /\ pan' = PSub(getMidpoint(all[Lo(pinchTouches)], all[Hi(pinchTouches)]),
                                   PScale(PDiv(PSub(initialPinchState.midpoint,
                                                    initialPinchState.pan),
                                               initialPinchState.zoom), MaxZoom))
               ELSE LET p1 == all[Lo(pinchTouches)]
                        p2 == all[Hi(pinchTouches)]
                    IN /\ zoom' = PinchNewZoom(initialPinchState, p1, p2)
                       /\ pan' = PinchNewPan(initialPinchState, p1, p2)
          ELSE UNCHANGED <<pan, zoom>>
     ELSE IF isPanning /\ touchIdentifier # NoTouch
     THEN IF touchIdentifier \in Keys(all)
          THEN /\ pan' = PSub(all[touchIdentifier], startPanPoint)
               /\ UNCHANGED zoom
          ELSE UNCHANGED <<pan, zoom>>
     ELSE UNCHANGED <<pan, zoom>>
  /\ UNCHANGED <<appState, isPanning, isPinching, startPanPoint, touchIdentifier,
                 pinchTouches, initialPinchState, listeners, cursor>>
\* handleTouchMoveGlobal whose pan follows whichever touch moved
TouchMoveGlobalAnyTouch(id, client) ==
  /\ id \in Keys(touches)
  /\ ViewEvent("touchmove", <<id, client>>)
  /\ touches' = [touches EXCEPT ![id] = client]
  /\ IF "touchmove" \in listeners /\ isPanning /\ ~isPinching /\ touchIdentifier # NoTouch
     THEN pan' = PSub(client, startPanPoint) /\ UNCHANGED zoom
     ELSE UNCHANGED <<pan, zoom>>
  /\ UNCHANGED <<appState, isPanning, isPinching, startPanPoint, touchIdentifier,
                 pinchTouches, initialPinchState, listeners, cursor>>
\* handleTouchMoveGlobal (part_003:54-103), attached to window: the touch id
\* moves to client
TouchMoveGlobal(id, client) ==
  /\ id \in Keys(touches)
  /\ ViewEvent("touchmove", <<id, client>>)
  /\ touches' = [touches EXCEPT ![id] = client]
  /\ LET all == [touches EXCEPT ![id] = client] IN
     IF "touchmove" \notin listeners
     THEN UNCHANGED <<pan, zoom>>
     ELSE IF isPinching /\ Cardinality(Keys(all)) = 2 /\ pinchTouches # {}
             /\ initialPinchState.set
     THEN IF pinchTouches \subseteq Keys(all)
          THEN IF RIsZero(initialPinchState.distance)
               THEN UNCHANGED <<pan, zoom>>
               ELSE LET p1 == all[Lo(pinchTouches)]
                        p2 == all[Hi(pinchTouches)]
                    IN /\ zoom' = PinchNewZoom(initialPinchState, p1, p2)
                       /\ pan' = PinchNewPan(initialPinchState, p1, p2)
          ELSE UNCHANGED <<pan, zoom>>
     ELSE IF isPanning /\ touchIdentifier # NoTouch
     THEN IF touchIdentifier \in Keys(all)
          THEN /\ pan' = PSub(all[touchIdentifier], startPanPoint)
               /\ UNCHANGED zoom
          ELSE UNCHANGED <<pan, zoom>>
     ELSE UNCHANGED <<pan, zoom>>
  /\ UNCHANGED <<appState, isPanning, isPinching, startPanPoint, touchIdentifier,
                 pinchTouches, initialPinchState, listeners, cursor>>

\* handleTouchEndOrCancelGlobal (part_003:112-138), attached to window: the
\* touches in changed leave the screen
TouchEndGlobal(changed) ==
  /\ changed # {}
  /\ changed \subseteq Keys(touches)
  /\ ViewEvent("touchend", <<changed>>)
  /\ touches' = [t \in Keys(touches) \ changed |-> touches[t]]
  /\ IF "touchend" \notin listeners
     THEN UNCHANGED <<appState, listeners, isPanning, isPinching, touchIdentifier,
                      initialPinchState, pinchTouches, cursor>>
     ELSE IF isPinching
     THEN IF changed \cap pinchTouches # {}
          THEN EndPanInteraction
          ELSE UNCHANGED <<appState, listeners, isPanning, isPinching, touchIdentifier,
                           initialPinchState, pinchTouches, cursor>>
     ELSE IF isPanning
     THEN IF touchIdentifier \in changed
          THEN EndPanInteraction
          ELSE UNCHANGED <<appState, listeners, isPanning, isPinching, touchIdentifier,
                           initialPinchState, pinchTouches, cursor>>
     ELSE UNCHANGED <<appState, listeners, isPanning, isPinching, touchIdentifier,
                      initialPinchState, pinchTouches, cursor>>
  /\ UNCHANGED <<pan, zoom, startPanPoint>>

\* the view state of the store is set from outside the controller
\* (updateViewStateAtom) and the effect on initialViewState (part_003:38-41)
\* copies the stored pan and zoom into the live ones
ExternalViewUpdate(newViewState) ==
  /\ ViewEvent("store.viewState", <<newViewState>>)
  /\ LET next == updateViewStateFn(appState, newViewState) IN
     /\ appState' = next
     /\ pan' = CurrentViewStateOf(next).pan
     /\ zoom' = CurrentViewStateOf(next).zoom
  /\ UNCHANGED <<isPanning, isPinching, startPanPoint, touchIdentifier, pinchTouches,
                 initialPinchState, listeners, cursor, touches>>

\* the view controller right after mount, for a store whose current
\* workspace has the view state viewState (useState, part_003:25-33)
ViewMounted(viewState) ==
  /\ pan = viewState.pan
  /\ zoom = viewState.zoom
  /\ isPanning = FALSE
  /\ isPinching = FALSE
  /\ startPanPoint = P(0, 0)
  /\ touchIdentifier = NoTouch
  /\ pinchTouches = {}
  /\ initialPinchState = NoPinch
  /\ listeners = {}
  /\ cursor = "auto"
  /\ touches = EmptyObj
  /\ canvasMounted = TRUE

\* what the events of the view controller carry
WheelDeltas == {-100, 0, 100}
ScreenPoints == {P(0, 0), P(60, 40)}
ClientPoints == {P(0, 0), P(30, 40), P(60, 80)}
TouchIds == 0 .. (MaxTouches - 1)
\* the touches that can land in one touchstart event
StartedTouches ==
  {[t \in S |-> pt] : S \in (SUBSET TouchIds) \ {{}}, pt \in {P(0, 0), P(30, 40)}}
    \cup {[t \in TouchIds |-> IF t = 0 THEN P(0, 0) ELSE P(30, 40)]}
\* view states a persisted store can hold after earlier sessions
StoredZooms == {MinZoom, R(1), Frac(19, 2), MaxZoom}
StoredPans == {P(0, 0), P(10, -20)}

(***************************************************************************)
(* The pointer gestures of a card: useDraggable (useDraggable.ts), the     *)
(* useResizable that Card.tsx mounts (src/unnamed/part_000:131-306) and    *)
(* the editing flag and auto-grow effect of Card (Card.tsx:1-298).  Each   *)
(* handler is a function of the state it reads and writes:                 *)
(*   st = [appState, interactionOrder, drag, resize, frames, written]      *)
(* where written lists the sizes the handler passed to updateSize.         *)
(***************************************************************************)
MIN_CARD_WIDTH == 150
MIN_CARD_HEIGHT == 80
\* paddingTop + paddingBottom of CardContent: padding '8px 8px 8px 8px'
CardContentVerticalPadding == 16
\* heightDifference > 5 (Card.tsx:119)
AutoGrowThreshold == 5

NullSize == [null |-> TRUE]
IdleDrag == [isDragging |-> FALSE, dragStartOffset |-> P(0, 0), touchIdentifier |-> NoTouch]
IdleResize == [isResizing |-> FALSE, resizeStartPointer |-> P(0, 0),
               resizeStartSize |-> NullSize]
\* document.body.style with nothing captured
ReleasedStyle == [userSelect |-> "", cursor |-> ""]
NoDragStart == [set |-> FALSE, position |-> P(0, 0), pointer |-> P(0, 0), by |-> NoTouch,
                view |-> DefaultViewState, moved |-> FALSE]

CardState == [appState |-> appState, interactionOrder |-> interactionOrder,
              drag |-> drag, resize |-> resize, frames |-> frames, written |-> <<>>,
              bodyStyle |-> bodyStyle]

\* the cards Workspace.tsx renders: Object.values(cards) of the current
\* workspace (Workspace.tsx:106-108)
MountedCards(state) == Keys(CurrentCardsOf(state))

\* client / zoom: the pan is not taken off
ToWorkspaceNoPan(client, view) == PDiv(client, view.zoom)

\* (client - pan) / zoom
ToWorkspace(client, view) == PDiv(PSub(client, view.pan), view.zoom)

\* cardData?.position ?? { x: 0, y: 0 } (Card.tsx:46)
InitialPositionOf(state, cardId) ==
  IF Has(CurrentCardsOf(state), cardId) THEN CurrentCardsOf(state)[cardId].position
  ELSE P(0, 0)

\* startDrag also moves the card under the pointer
startDragSnap(st, cardId, client, identifier, isEnabled) ==
  LET view == CurrentViewStateOf(st.appState) IN
  IF ~Has(CurrentCardsOf(st.appState), cardId) \/ ~isEnabled THEN st
  ELSE [st EXCEPT
          !.interactionOrder = bringCardToFrontFn(@, cardId),
          !.appState = updateCardPositionFn(@, cardId, ToWorkspace(client, view)),
          !.bodyStyle.userSelect = "none",
          !.drag[cardId] =
             [isDragging |-> TRUE,
              touchIdentifier |-> IF identifier # NoTouch THEN identifier
                                  ELSE @.touchIdentifier,
              dragStartOffset |-> P(0, 0)]]
\* startDrag that leaves the interaction order alone
startDragNoFront(st, cardId, client, identifier, isEnabled) ==
  LET view == CurrentViewStateOf(st.appState) IN
  IF ~Has(CurrentCardsOf(st.appState), cardId) \/ ~isEnabled THEN st
  ELSE [st EXCEPT
          !.bodyStyle.userSelect = "none",
          !.drag[cardId] =
             [isDragging |-> TRUE,
              touchIdentifier |-> IF identifier # NoTouch THEN identifier
                                  ELSE @.touchIdentifier,
              dragStartOffset |-> PSub(ToWorkspace(client, view),
                                       InitialPositionOf(st.appState, cardId))]]
\* startDrag (useDraggable.ts:28-48); identifier is NoTouch for a mouse;
\* cardRef.current is the card's element, there while the card is rendered
startDrag(st, cardId, client, identifier, isEnabled) ==
  LET view == CurrentViewStateOf(st.appState) IN
  IF ~Has(CurrentCardsOf(st.appState), cardId) \/ ~isEnabled THEN st
  ELSE [st EXCEPT
          !.interactionOrder = bringCardToFrontFn(@, cardId),
          !.bodyStyle.userSelect = "none",
          !.drag[cardId] =
             [isDragging |-> TRUE,
              touchIdentifier |-> IF identifier # NoTouch THEN identifier
                                  ELSE @.touchIdentifier,
              dragStartOffset |-> PSub(ToWorkspace(client, view),
                                       InitialPositionOf(st.appState, cardId))]]

\* handleDrag (useDraggable.ts:50-60)
handleDrag(st, cardId, client) ==
  LET view == CurrentViewStateOf(st.appState) IN
  IF ~st.drag[cardId].isDragging THEN st
  ELSE [st EXCEPT !.appState =
          updateCardPositionFn(@, cardId,
            PSub(ToWorkspace(client, view), st.drag[cardId].dragStartOffset))]

\* endDrag (useDraggable.ts:62-70)
endDrag(st, cardId) ==
  IF st.drag[cardId].isDragging
  THEN [st EXCEPT !.drag[cardId].isDragging = FALSE,
                  !.drag[cardId].touchIdentifier = NoTouch,
                  !.bodyStyle.userSelect = ""]
  ELSE st

\* the guard of handleMouseDown (useDraggable.ts:75)
DragMouseDownStarts(onHandle, button, isEnabled) ==
  ~(onHandle \/ button # 0 \/ ~isEnabled)
\* the guard of handleTouchStart (useDraggable.ts:84-86)
DragTouchStartStarts(onHandle, all, isEnabled) ==
  ~(onHandle \/ Cardinality(Keys(all)) # 1 \/ ~isEnabled)
\* the guard of handleMouseMove (useDraggable.ts:96)
MouseMoveDrags(d) == d.isDragging /\ d.touchIdentifier = NoTouch
\* the guards of handleTouchMove (useDraggable.ts:114-123)
TouchMoveDrags(d, all) ==
  d.isDragging /\ d.touchIdentifier # NoTouch /\ d.touchIdentifier \in Keys(all)

\* handleMouseDown of the card (useDraggable.ts:73-80)
dragMouseDown(st, cardId, onHandle, button, client, isEnabled) ==
  IF DragMouseDownStarts(onHandle, button, isEnabled)
  THEN startDrag(st, cardId, client, NoTouch, isEnabled)
  ELSE st

\* handleTouchStart of the card (useDraggable.ts:82-91); all is event.touches
dragTouchStart(st, cardId, onHandle, all, isEnabled) ==
  IF DragTouchStartStarts(onHandle, all, isEnabled)
  THEN startDrag(st, cardId, all[Lo(Keys(all))], Lo(Keys(all)), isEnabled)
  ELSE st

\* the window listeners of useDraggable (useDraggable.ts:94-146); the effect
\* (149-164) has them attached while isDraggingState is true
dragMouseMove(st, cardId, client) ==
  IF MouseMoveDrags(st.drag[cardId]) THEN handleDrag(st, cardId, client) ELSE st

dragMouseUp(st, cardId, button) ==
  IF st.drag[cardId].isDragging /\ button = 0
     /\ st.drag[cardId].touchIdentifier = NoTouch
  THEN endDrag(st, cardId)
  ELSE st

dragTouchMove(st, cardId, all) ==
  IF TouchMoveDrags(st.drag[cardId], all)
  THEN handleDrag(st, cardId, all[st.drag[cardId].touchIdentifier])
  ELSE st

dragTouchEnd(st, cardId, changed) ==
  IF st.drag[cardId].isDragging /\ st.drag[cardId].touchIdentifier \in changed
  THEN endDrag(st, cardId)
  ELSE st

HasSize(state, cardId) ==
  /\ Has(CurrentCardsOf(state), cardId)
  /\ "size" \in DOMAIN CurrentCardsOf(state)[cardId]

\* startResize (part_000:160-171)
startResize(st, cardId, client, isEnabled) ==
  IF ~HasSize(st.appState, cardId) \/ ~isEnabled THEN st
  ELSE [st EXCEPT
          !.interactionOrder = bringCardToFrontFn(@, cardId),
          !.bodyStyle = [userSelect |-> "none", cursor |-> "nwse-resize"],
          !.resize[cardId] =
             [isResizing |-> TRUE, resizeStartPointer |-> client,
              resizeStartSize |-> CurrentCardsOf(st.appState)[cardId].size]]

\* handleResizeMouseDown (part_000:276-283)
resizeMouseDown(st, cardId, button, client, isEnabled) ==
  IF button # 0 \/ ~isEnabled THEN st ELSE startResize(st, cardId, client, isEnabled)

\* handleResizeTouchStart (part_000:285-295); all is event.touches
resizeTouchStart(st, cardId, all, isEnabled) ==
  IF Cardinality(Keys(all)) = 1 /\ isEnabled
  THEN startResize(st, cardId, all[Lo(Keys(all))], isEnabled)
  ELSE st

\* handleResize (part_000:183-187, 205): the values its callback closes over
\* go to requestAnimationFrame
handleResize(st, cardId, client) ==
  IF \/ ~st.resize[cardId].isResizing
     \/ st.resize[cardId].resizeStartSize = NullSize
     \/ ~Has(CurrentCardsOf(st.appState), cardId)
  THEN st
  ELSE [st EXCEPT !.frames =
          Append(@, [cardId |-> cardId, client |-> client,
                     zoom |-> CurrentViewStateOf(st.appState).zoom])]

\* the size of a resize move, with no minimum
ResizeSizeUnclamped(startSize, startPointer, client, z, textScrollHeight) ==
  [width |-> RAdd(startSize.width, RDiv(RSub(client.x, startPointer.x), z)),
   height |-> RAdd(startSize.height, RDiv(RSub(client.y, startPointer.y), z))]
\* the size of a resize move, with the pointer delta not divided by the zoom
ResizeSizeScreenDelta(startSize, startPointer, client, z, textScrollHeight) ==
  LET newWidth == RAdd(startSize.width, RSub(client.x, startPointer.x))
      newHeight == RAdd(startSize.height, RSub(client.y, startPointer.y))
      userClampedHeight == RMax(R(MIN_CARD_HEIGHT), newHeight)
      minHeightForText == RAdd(textScrollHeight, R(CardContentVerticalPadding))
  IN  [width |-> RMax(R(MIN_CARD_WIDTH), newWidth),
       height |-> RMax(RMax(userClampedHeight, minHeightForText), R(MIN_CARD_HEIGHT))]
\* the size of a resize move, with the minimum size and no minimum for the text
ResizeSizeNoTextMinimum(startSize, startPointer, client, z, textScrollHeight) ==
  LET newWidth == RAdd(startSize.width, RDiv(RSub(client.x, startPointer.x), z))
      newHeight == RAdd(startSize.height, RDiv(RSub(client.y, startPointer.y), z))
  IN  [width |-> RMax(R(MIN_CARD_WIDTH), newWidth),
       height |-> RMax(R(MIN_CARD_HEIGHT), newHeight)]
\* the size of a resize move (part_000:190-202)
ResizeSize(startSize, startPointer, client, z, textScrollHeight) ==
  LET deltaX == RSub(client.x, startPointer.x)
      deltaY == RSub(client.y, startPointer.y)
      newWidth == RAdd(startSize.width, RDiv(deltaX, z))
      newHeight == RAdd(startSize.height, RDiv(deltaY, z))
      clampedWidth == RMax(R(MIN_CARD_WIDTH), newWidth)
      userClampedHeight == RMax(R(MIN_CARD_HEIGHT), newHeight)
      minHeightForText == RAdd(textScrollHeight, R(CardContentVerticalPadding))
      finalHeight == RMax(RMax(userClampedHeight, minHeightForText), R(MIN_CARD_HEIGHT))
  IN  [width |-> clampedWidth, height |-> finalHeight]

\* the callback of requestAnimationFrame (part_000:187-204); the refs are
\* read when it runs; textScrollHeight is what the sizer element measures
runFrame(st, frame, textScrollHeight) ==
  LET r == st.resize[frame.cardId] IN
  IF r.resizeStartSize = NullSize \/ ~Has(CurrentCardsOf(st.appState), frame.cardId)
  THEN st
  ELSE LET size == ResizeSize(r.resizeStartSize, r.resizeStartPointer, frame.client,
                              frame.zoom, textScrollHeight)
       IN [st EXCEPT !.appState = updateCardSizeFn(@, frame.cardId, size),
                     !.written = Append(@, size)]

RECURSIVE runFrames(_, _)
runFrames(st, textScrollHeight) ==
  IF st.frames = <<>> THEN st
  ELSE runFrames(runFrame([st EXCEPT !.frames = Tail(@)], Head(st.frames),
                          textScrollHeight),
                 textScrollHeight)

\* endResize (part_000:209-216)
endResize(st, cardId) ==
  IF st.resize[cardId].isResizing
  THEN [st EXCEPT !.resize[cardId].isResizing = FALSE,
                  !.resize[cardId].resizeStartSize = NullSize,
                  !.bodyStyle = ReleasedStyle]
  ELSE st

\* the window listeners of useResizable (part_000:218-274), attached while
\* isResizing is true
resizeMouseMove(st, cardId, client) ==
  IF st.resize[cardId].isResizing THEN handleResize(st, cardId, client) ELSE st

resizeMouseUp(st, cardId, button) ==
  IF button = 0 /\ st.resize[cardId].isResizing THEN endResize(st, cardId) ELSE st

resizeTouchMove(st, cardId, all) ==
  IF st.resize[cardId].isResizing /\ Cardinality(Keys(all)) = 1
  THEN handleResize(st, cardId, all[Lo(Keys(all))])
  ELSE st

resizeTouchEnd(st, cardId) ==
  IF st.resize[cardId].isResizing THEN endResize(st, cardId) ELSE st

\* the auto-adjust height effect without the test of isResizing
autoGrowWhileResizing(st, cardId, isEditing, scrollHeight) ==
  IF isEditing \/ ~HasSize(st.appState, cardId)
  THEN st
  ELSE LET size == CurrentCardsOf(st.appState)[cardId].size
           requiredHeight == RAdd(scrollHeight, R(CardContentVerticalPadding))
       IN IF RLt(R(AutoGrowThreshold), RSub(requiredHeight, size.height))
          THEN [st EXCEPT !.appState =
                  updateCardSizeFn(@, cardId,
                    [width |-> size.width, height |-> requiredHeight])]
          ELSE st
\* the auto-adjust height effect that grows the card by any difference
autoGrowNoThreshold(st, cardId, isEditing, scrollHeight) ==
  IF isEditing \/ st.resize[cardId].isResizing \/ ~HasSize(st.appState, cardId)
  THEN st
  ELSE LET size == CurrentCardsOf(st.appState)[cardId].size
           requiredHeight == RAdd(scrollHeight, R(CardContentVerticalPadding))
       IN IF RLt(R(0), RSub(requiredHeight, size.height))
          THEN [st EXCEPT !.appState =
                  updateCardSizeFn(@, cardId,
                    [width |-> size.width, height |-> requiredHeight])]
          ELSE st
\* the auto-adjust height effect of Card (Card.tsx:110-124), run after a
\* render in which isEditing, isResizing, the text or the size changed;
\* scrollHeight is what the text element measures
autoGrow(st, cardId, isEditing, scrollHeight) ==
  IF isEditing \/ st.resize[cardId].isResizing \/ ~HasSize(st.appState, cardId)
  THEN st
  ELSE LET size == CurrentCardsOf(st.appState)[cardId].size
           requiredHeight == RAdd(scrollHeight, R(CardContentVerticalPadding))
           heightDifference == RSub(requiredHeight, size.height)
       IN IF RLt(R(AutoGrowThreshold), heightDifference)
          THEN [st EXCEPT !.appState =
                  updateCardSizeFn(@, cardId,
                    [width |-> size.width, height |-> requiredHeight])]
          ELSE st

\* one handler after the other, for every card in ids
RECURSIVE ForEachCard(_, _, _)
ForEachCard(F(_, _), st, ids) ==
  IF ids = <<>> THEN st
  ELSE ForEachCard(F, F(st, Head(ids)), Tail(ids))

CardBefore == [appState |-> appState, interactionOrder |-> interactionOrder,
               drag |-> drag, resize |-> resize]

\* an event handled by the hooks of the cards, which leaves the store, the
\* hooks and the touches on the screen as st and all say
CardEvent(name, args, st, all) ==
  /\ Budget(MaxCardOps)
  /\ lastOp' = Op(name, args)
  /\ before' = CardBefore
  /\ thrown' = FALSE
  /\ appState' = st.appState
  /\ interactionOrder' = st.interactionOrder
  /\ drag' = st.drag
  /\ resize' = st.resize
  /\ frames' = st.frames
  /\ bodyStyle' = st.bodyStyle
  /\ touches' = all
  /\ toastsPushed' = <<>>
  /\ UNCHANGED <<lastCreatedCardId, viewportSize, nextId, importVars>>
  /\ UNCHANGED <<pan, zoom, isPanning, isPinching, startPanPoint, touchIdentifier,
                 pinchTouches, initialPinchState, listeners, cursor, canvasMounted>>

\* what a drag of cardId starts from: the card's position, the pointer (the
\* mouse, or the touch by) and where it is, and the view; a card that is
\* dragging already keeps what its drag started from
DragStartNow(cardId, client, by) ==
  IF drag[cardId].isDragging THEN dragStart[cardId]
  ELSE [set |-> TRUE, position |-> InitialPositionOf(appState, cardId),
        pointer |-> client, by |-> by, view |-> CurrentViewStateOf(appState),
        moved |-> FALSE]

Mounted == SomeOrder(MountedCards(appState))
SomeListener ==
  \E c \in MountedCards(appState) : drag[c].isDragging \/ resize[c].isResizing

\* a mouse button goes down on the card cardId, on its resize handle or not:
\* the handle's handler runs first and stops the event when it starts a resize
CardMouseDown(cardId, onHandle, button, client) ==
  /\ cardId \in MountedCards(appState)
  /\ LET isEnabled == cardId \notin editing IN
     /\ CardEvent("card.mousedown", <<cardId, onHandle, button, client>>,
          IF onHandle
          THEN resizeMouseDown(CardState, cardId, button, client, isEnabled)
          ELSE dragMouseDown(CardState, cardId, onHandle, button, client, isEnabled),
          touches)
     /\ dragStart' = IF ~onHandle /\ DragMouseDownStarts(onHandle, button, isEnabled)
                     THEN [dragStart EXCEPT ![cardId] = DragStartNow(cardId, client, NoTouch)]
                     ELSE dragStart
  /\ UNCHANGED editing

\* a finger goes down on the card cardId
CardTouchStart(cardId, onHandle, id, client) ==
  /\ cardId \in MountedCards(appState)
  /\ id \notin Keys(touches)
  /\ LET isEnabled == cardId \notin editing
         all == (id :> client) @@ touches
     IN
     /\ CardEvent("card.touchstart", <<cardId, onHandle, id, client>>,
          IF onHandle
          THEN resizeTouchStart(CardState, cardId, all, isEnabled)
          ELSE dragTouchStart(CardState, cardId, onHandle, all, isEnabled),
          all)
     /\ dragStart' = IF ~onHandle /\ DragTouchStartStarts(onHandle, all, isEnabled)
                     THEN [dragStart EXCEPT ![cardId] = DragStartNow(cardId, client, id)]
                     ELSE dragStart
  /\ UNCHANGED editing

\* a mouse button goes down on the delete button of the card cardId: the
\* button is inside the card's element and has no handler for the press
\* (Card.tsx:254-270), so the event reaches handleMouseDown of the card,
\* whose target is not inside the resize handle
DeleteControlMouseDown(cardId, button, client) ==
  /\ cardId \in MountedCards(appState)
  /\ LET isEnabled == cardId \notin editing IN
     /\ CardEvent("delete.mousedown", <<cardId, button, client>>,
          dragMouseDown(CardState, cardId, FALSE, button, client, isEnabled),
          touches)
     /\ dragStart' = IF DragMouseDownStarts(FALSE, button, isEnabled)
                     THEN [dragStart EXCEPT ![cardId] = DragStartNow(cardId, client, NoTouch)]
                     ELSE dragStart
  /\ UNCHANGED editing

\* the cards a move event moves count as moved since their drag started
MarkMoved(moves(_)) ==
  dragStart' = [c \in DOMAIN dragStart |->
                  IF moves(c) THEN [dragStart[c] EXCEPT !.moved = TRUE]
                  ELSE dragStart[c]]

mouseMoveOf(client, st, c) == resizeMouseMove(dragMouseMove(st, c, client), c, client)

\* mousemove on window
WindowMouseMove(client) ==
  /\ SomeListener
  /\ LET F(st, c) == mouseMoveOf(client, st, c) IN
     CardEvent("window.mousemove", <<client>>, ForEachCard(F, CardState, Mounted), touches)
  /\ LET moves(c) == MouseMoveDrags(drag[c]) IN MarkMoved(moves)
  /\ UNCHANGED editing

\* the effect of Card runs for the cards whose isResizing an event changed
autoGrowAfter(scrollHeight, st, c) ==
  IF st.resize[c].isResizing # resize[c].isResizing
  THEN autoGrow(st, c, c \in editing, scrollHeight)
  ELSE st

mouseUpOf(button, st, c) == resizeMouseUp(dragMouseUp(st, c, button), c, button)

\* mouseup on window
WindowMouseUp(button, scrollHeight) ==
  /\ SomeListener
  /\ LET F(st, c) == mouseUpOf(button, st, c)
         G(st, c) == autoGrowAfter(scrollHeight, st, c)
     IN CardEvent("window.mouseup", <<button>>,
          ForEachCard(G, ForEachCard(F, CardState, Mounted), Mounted), touches)
  /\ UNCHANGED <<editing, dragStart>>

touchMoveOf(all, st, c) == resizeTouchMove(dragTouchMove(st, c, all), c, all)

\* touchmove on window: the touch id moves to client
WindowTouchMove(id, client) ==
  /\ SomeListener
  /\ id \in Keys(touches)
  /\ LET all == [touches EXCEPT ![id] = client]
         F(st, c) == touchMoveOf(all, st, c)
         moves(c) == TouchMoveDrags(drag[c], all)
     IN /\ CardEvent("window.touchmove", <<id, client>>,
             ForEachCard(F, CardState, Mounted), all)
        /\ MarkMoved(moves)
  /\ UNCHANGED editing

touchEndOf(changed, st, c) == resizeTouchEnd(dragTouchEnd(st, c, changed), c)

\* touchend or touchcancel on window: the touches in changed leave the screen
WindowTouchEnd(changed, scrollHeight) ==
  /\ changed # {}
  /\ changed \subseteq Keys(touches)
  /\ LET all == [t \in Keys(touches) \ changed |-> touches[t]]
         F(st, c) == touchEndOf(changed, st, c)
         G(st, c) == autoGrowAfter(scrollHeight, st, c)
     IN CardEvent("window.touchend", <<changed>>,
          ForEachCard(G, ForEachCard(F, CardState, Mounted), Mounted), all)
  /\ UNCHANGED <<editing, dragStart>>

\* the browser runs the callbacks handed to requestAnimationFrame
AnimationFrame(textScrollHeight) ==
  /\ frames # <<>>
  /\ LET st == runFrames(CardState, textScrollHeight) IN
     CardEvent("animationFrame", st.written, st, touches)
  /\ UNCHANGED <<editing, dragStart>>

\* handleDoubleClick of Card (Card.tsx:80-87)
StartEditing(cardId) ==
  /\ cardId \in MountedCards(appState)
  /\ cardId \notin editing
  /\ CardEvent("card.dblclick", <<cardId>>, CardState, touches)
  /\ editing' = editing \cup {cardId}
  /\ UNCHANGED dragStart

\* handleTextBlur with the text as it was, or Escape (Card.tsx:93-107), and
\* the effect of Card that follows
StopEditing(cardId, scrollHeight) ==
  /\ cardId \in editing
  /\ CardEvent("card.blur", <<cardId>>, autoGrow(CardState, cardId, FALSE, scrollHeight),
               touches)
  /\ editing' = editing \ {cardId}
  /\ UNCHANGED dragStart

\* a wheel event over the workspace while the cards are there
CardWheel(deltaY, pointer) ==
  /\ Budget(MaxCardOps)
  /\ lastOp' = Op("wheel", <<deltaY, pointer>>)
  /\ before' = CardBefore
  /\ thrown' = FALSE
  /\ handleWheel(deltaY, pointer)
  /\ toastsPushed' = <<>>
  /\ UNCHANGED <<interactionOrder, lastCreatedCardId, viewportSize, nextId>>
  /\ UNCHANGED <<cardVars, importVars, canvasMounted>>

\* the import dialog is closed and no toast was pushed (part_011:44-45,
\* atoms.ts:112)
ImportMounted ==
  /\ isImportDialogOpen = FALSE
  /\ importedWorkspaces = <<>>
  /\ toastsPushed = <<>>

\* no card is mounted with a gesture going on
HooksMounted(ids) ==
  /\ drag = [c \in ids |-> IdleDrag]
  /\ resize = [c \in ids |-> IdleResize]
  /\ editing = {}
  /\ frames = <<>>
  /\ dragStart = [c \in ids |-> NoDragStart]
  /\ bodyStyle = ReleasedStyle

\* what the events on the cards carry
PressPoint == P(60, 60)
MovePoints == {P(160, 160), P(-240, -40)}
ScrollHeights == {R(0), R(88), R(100)}
CardZooms == {R(1), R(2)}

\* a session in which two cards were added by double clicks at (150,100) and
\* (140,90) and left with their text empty
TwoCards ==
  addCardFn(addCardFn(initialAppState, Uuid(1), "", P(150, 100)), Uuid(2), "", P(140, 90))

CardInit ==
  /\ \E z \in CardZooms :
       /\ appState = updateViewStateFn(TwoCards, [zoom |-> z])
       /\ ViewMounted([pan |-> P(0, 0), zoom |-> z])
  /\ interactionOrder = <<Uuid(1), Uuid(2)>>
  /\ lastCreatedCardId = Null
  /\ viewportSize = Size(800, 600)
  /\ nextId = 2
  /\ thrown = FALSE
  /\ lastOp = Op("init", <<>>)
  /\ ops = 0
  /\ HooksMounted(MountedCards(TwoCards))
  /\ ImportMounted
  /\ before = [appState |-> appState, interactionOrder |-> interactionOrder,
               drag |-> drag, resize |-> resize]

CardNext ==
  \/ \E c \in MountedCards(appState), onHandle \in BOOLEAN, button \in {0, 2} :
       CardMouseDown(c, onHandle, button, PressPoint)
  \/ \E c \in MountedCards(appState), onHandle \in BOOLEAN, id \in TouchIds :
       CardTouchStart(c, onHandle, id, PressPoint)
  \/ \E pt \in MovePoints : WindowMouseMove(pt)
  \/ \E button \in {0, 2}, sh \in ScrollHeights : WindowMouseUp(button, sh)
  \/ \E id \in TouchIds, pt \in MovePoints : WindowTouchMove(id, pt)
  \/ \E changed \in (SUBSET TouchIds) \ {{}}, sh \in ScrollHeights :
       WindowTouchEnd(changed, sh)
  \/ \E sh \in ScrollHeights : AnimationFrame(sh)
  \/ \E c \in MountedCards(appState) : StartEditing(c)
  \/ \E c \in MountedCards(appState), sh \in ScrollHeights : StopEditing(c, sh)
  \/ \E d \in {-100, 100} : CardWheel(d, PressPoint)
  \/ \E c \in MountedCards(appState) : DeleteControlMouseDown(c, 0, PressPoint)

(***************************************************************************)
(* Unmounting.  Workspace renders one Card for every card of the current   *)
(* workspace (Workspace.tsx:106-108), so a card that is deleted is         *)
(* unmounted, and the cards are unmounted with the Workspace component.    *)
(* At unmount React runs the cleanups of the effects: those of useDraggable *)
(* (useDraggable.ts:156-162) and of useResizable (part_000:238-241,        *)
(* 269-273) take the window listeners off, and that is all they do; the    *)
(* one of usePanZoom (part_003:259-265) calls endPanInteraction.  The      *)
(* window handlers of the cards run for the mounted cards only.            *)
(***************************************************************************)
\* handleDelete of Card (Card.tsx:127-130), the click on the delete button
CardDelete(cardId) ==
  /\ cardId \in MountedCards(appState)
  /\ ~deleteCardThrows(appState, cardId)
  /\ CardEvent("card.delete", <<cardId>>,
       [CardState EXCEPT !.appState = deleteCardFn(@, cardId),
                         !.interactionOrder = FilterOut(@, cardId)],
       touches)
  /\ editing' = editing \ {cardId}
  /\ UNCHANGED dragStart

\* the Workspace component is unmounted: the cleanup of usePanZoom's mount
\* effect (part_003:259-265) runs endPanInteractionRef.current
CanvasUnmount ==
  /\ canvasMounted
  /\ Budget(MaxViewOps)
  /\ lastOp' = Op("canvas.unmount", <<>>)
  /\ before' = ViewBefore
  /\ thrown' = FALSE
  /\ toastsPushed' = <<>>
  /\ canvasMounted' = FALSE
  /\ EndPanInteraction
  /\ UNCHANGED <<pan, zoom, startPanPoint, touches>>
  /\ UNCHANGED <<interactionOrder, lastCreatedCardId, viewportSize, nextId>>
  /\ UNCHANGED <<cardVars, importVars>>

\* gestures of the cards and of the canvas, and unmounts in their middle.
\* The elements of an unmounted canvas get no event; the events on window
\* go on, and reach the listeners that are still attached
TeardownNext ==
  \/ canvasMounted /\ CardNext
  \/ canvasMounted /\ \E c \in MountedCards(appState) : CardDelete(c)
  \/ canvasMounted /\ \E pt \in ScreenPoints : MouseDown(FALSE, 0, pt)
  \/ canvasMounted /\ \E started \in StartedTouches : TouchStart(FALSE, started)
  \/ CanvasUnmount
  \/ \E pt \in ClientPoints : MouseMoveGlobal(pt)
  \/ \E button \in {0, 2} : MouseUpGlobal(button)
  \/ \E id \in TouchIds, pt \in ClientPoints : TouchMoveGlobal(id, pt)
  \/ \E changed \in (SUBSET TouchIds) \ {{}} : TouchEndGlobal(changed)

(***************************************************************************)
(* Navigation from the sidebar: centerOnPointAtom, updateViewStateAtom and *)
(* the card list of the sidebar (src/unnamed/part_011).                    *)
(***************************************************************************)
\* centerOnPointAtom with the point not scaled by the zoom
centerOnPointUnscaled(prev, viewport, targetPoint) ==
  IF RIsZero(viewport.width) \/ RIsZero(viewport.height) THEN prev
  ELSE updateViewStateFn(prev,
         [pan |-> Point(RSub(RDiv(viewport.width, R(2)), targetPoint.x),
                        RSub(RDiv(viewport.height, R(2)), targetPoint.y))])
\* centerOnPointAtom without the test of the viewport size
centerOnPointNoGuard(prev, viewport, targetPoint) ==
  LET z == CurrentViewStateOf(prev).zoom
      newPanX == RSub(RDiv(viewport.width, R(2)), RMul(targetPoint.x, z))
      newPanY == RSub(RDiv(viewport.height, R(2)), RMul(targetPoint.y, z))
  IN  updateViewStateFn(prev, [pan |-> Point(newPanX, newPanY)])
\* centerOnPointAtom (atoms.ts:412-431): the state it leaves, for the viewport
\* size it reads
centerOnPointFn(prev, viewport, targetPoint) ==
  LET z == CurrentViewStateOf(prev).zoom IN
  IF RIsZero(viewport.width) \/ RIsZero(viewport.height) THEN prev
  ELSE LET newPanX == RSub(RDiv(viewport.width, R(2)), RMul(targetPoint.x, z))
           newPanY == RSub(RDiv(viewport.height, R(2)), RMul(targetPoint.y, z))
       IN updateViewStateFn(prev, [pan |-> Point(newPanX, newPanY)])

\* the point handleCardClick centers on (part_011:102-106)
CardCenter(card) ==
  LET cardWidth == IF "size" \in DOMAIN card THEN card.size.width ELSE R(MIN_CARD_WIDTH)
      cardHeight == IF "size" \in DOMAIN card THEN card.size.height ELSE R(MIN_CARD_HEIGHT)
  IN  Point(RAdd(card.position.x, RDiv(cardWidth, R(2))),
            RAdd(card.position.y, RDiv(cardHeight, R(2))))

\* centerOnPointAtom (atoms.ts:412-431)
CenterOnPoint(targetPoint) ==
  /\ StoreBudget
  /\ appState' = centerOnPointFn(appState, viewportSize, targetPoint)
  /\ thrown' = FALSE
  /\ lastOp' = Op("centerOnPoint", <<targetPoint>>)
  /\ UNCHANGED <<interactionOrder, lastCreatedCardId, viewportSize, nextId>>

\* handleCardClick of the sidebar's card list (part_011:98-112)
SidebarCardClick(cardId) ==
  /\ StoreBudget
  /\ appState' = IF Has(CurrentCardsOf(appState), cardId)
                 THEN centerOnPointFn(appState, viewportSize,
                                      CardCenter(CurrentCardsOf(appState)[cardId]))
                 ELSE appState
  /\ thrown' = FALSE
  /\ lastOp' = Op("sidebar.cardClick", <<cardId>>)
  /\ UNCHANGED <<interactionOrder, lastCreatedCardId, viewportSize, nextId>>

\* updateViewStateAtom (atoms.ts:144-166)
UpdateViewState(newViewState) ==
  /\ StoreBudget
  /\ appState' = updateViewStateFn(appState, newViewState)
  /\ thrown' = FALSE
  /\ lastOp' = Op("updateViewState", <<newViewState>>)
  /\ UNCHANGED <<interactionOrder, lastCreatedCardId, viewportSize, nextId>>

\* what the navigation operations are called with
SidebarViewports == {Size(0, 0), Size(800, 600), Size(1025, 0), Size(1025, 768)}
CenterPoints == {P(0, 0), P(150, -100)}
SidebarZooms == {Frac(1, 2), R(1), R(2)}
ViewStateUpdates == {[zoom |-> R(2)], [pan |-> P(10, -20), zoom |-> Frac(1, 2)]}

SidebarInit ==
  /\ \E z \in SidebarZooms, pn \in StoredPans :
       /\ appState = updateViewStateFn(TwoCards, [pan |-> pn, zoom |-> z])
       /\ ViewMounted([pan |-> pn, zoom |-> z])
  /\ interactionOrder = <<Uuid(1), Uuid(2)>>
  /\ lastCreatedCardId = Null
  /\ viewportSize = Size(0, 0)
  /\ nextId = 2
  /\ thrown = FALSE
  /\ lastOp = Op("init", <<>>)
  /\ ops = 0
  /\ HooksMounted(MountedCards(TwoCards))
  /\ ImportMounted
  /\ before = [appState |-> appState, interactionOrder |-> interactionOrder,
               op |-> Op("init", <<>>)]

SidebarNext ==
  \/ \E sz \in SidebarViewports : SetViewportSize(sz)
  \/ \E pt \in CenterPoints : CenterOnPoint(pt)
  \/ \E c \in CardIdArgs : SidebarCardClick(c)
  \/ \E v \in ViewStateUpdates : UpdateViewState(v)
  \/ \E c \in CardIdArgs : BringCardToFront(c)

ViewInit ==
  /\ \E z \in StoredZooms, pn \in StoredPans :
       /\ appState = updateViewStateFn(initialAppState, [pan |-> pn, zoom |-> z])
       /\ ViewMounted([pan |-> pn, zoom |-> z])
  /\ interactionOrder = <<>>
  /\ lastCreatedCardId = Null
  /\ viewportSize = Size(0, 0)
  /\ nextId = 0
  /\ thrown = FALSE
  /\ lastOp = Op("init", <<>>)
  /\ ops = 0
  /\ HooksMounted({})
  /\ ImportMounted
  /\ before = [pan |-> pan, zoom |-> zoom, viewState |-> CurrentViewStateOf(appState),
               isPanning |-> FALSE, isPinching |-> FALSE,
               touchIdentifier |-> NoTouch, listeners |-> {}]

\* the view controller in the middle of a pan: finger 0 has gone down on the
\* background at pt and nothing has happened since (handleTouchStart,
\* part_003:239-251, from the state of ViewInit)
PanningInit ==
  /\ \E z \in StoredZooms, pn \in StoredPans, pt \in ScreenPoints :
       /\ appState = updateViewStateFn(initialAppState, [pan |-> pn, zoom |-> z])
       /\ pan = pn
       /\ zoom = z
       /\ startPanPoint = PSub(pt, pn)
       /\ touches = (0 :> pt)
       /\ lastOp = Op("touchstart", <<FALSE, (0 :> pt)>>)
  /\ isPanning = TRUE
  /\ isPinching = FALSE
  /\ touchIdentifier = 0
  /\ pinchTouches = {}
  /\ initialPinchState = NoPinch
  /\ listeners = TouchListeners
  /\ cursor = "move"
  /\ canvasMounted = TRUE
  /\ interactionOrder = <<>>
  /\ lastCreatedCardId = Null
  /\ viewportSize = Size(0, 0)
  /\ nextId = 0
  /\ thrown = FALSE
  /\ ops = 0
  /\ HooksMounted({})
  /\ ImportMounted
  /\ before = [pan |-> pan, zoom |-> zoom, viewState |-> CurrentViewStateOf(appState),
               isPanning |-> FALSE, isPinching |-> FALSE,
               touchIdentifier |-> NoTouch, listeners |-> {}]

ViewNext ==
  \/ \E d \in WheelDeltas, pt \in ScreenPoints : Wheel(d, pt)
  \/ \E onCard \in BOOLEAN, button \in {0, 2}, pt \in ScreenPoints :
       MouseDown(onCard, button, pt)
  \/ \E pt \in ClientPoints : MouseMoveGlobal(pt)
  \/ \E button \in {0, 2} : MouseUpGlobal(button)
  \/ \E onCard \in BOOLEAN, started \in StartedTouches : TouchStart(onCard, started)
  \/ \E id \in TouchIds, pt \in ClientPoints : TouchMoveGlobal(id, pt)
  \/ \E changed \in (SUBSET TouchIds) \ {{}} : TouchEndGlobal(changed)
  \/ \E v \in ViewStateUpdates : ExternalViewUpdate(v)

StoreInit ==
  /\ appState = initialAppState
  /\ interactionOrder = <<>>
  /\ lastCreatedCardId = Null
  /\ viewportSize = Size(0, 0)
  /\ nextId = 0
  /\ thrown = FALSE
  /\ lastOp = Op("init", <<>>)
  /\ ops = 0
  /\ ViewMounted(DefaultViewState)
  /\ HooksMounted({})
  /\ ImportMounted
  /\ before = [appState |-> initialAppState, interactionOrder |-> <<>>, op |-> Op("init", <<>>)]

StoreNext ==
  \/ \E p \in CardPositions : AddCard("", p)
  \/ \E c \in CardIdArgs : UpdateCardPosition(c, NewPosition)
  \/ \E c \in CardIdArgs : UpdateCardText(c, NewText)
  \/ \E c \in CardIdArgs : UpdateCardSize(c, NewSize)
  \/ \E c \in CardIdArgs : DeleteCard(c)
  \/ \E n \in WorkspaceNames : CreateWorkspace(n)
  \/ \E w \in WorkspaceIdArgs : SwitchWorkspace(w)
  \/ \E w \in WorkspaceIdArgs : DeleteWorkspace(w)
  \/ \E c \in CardIdArgs : BringCardToFront(c)
  \/ \E w \in WorkspaceIdArgs : UpdateCardOrder(w)
  \/ \E f \in ImportFiles, checked \in Selections : ConfirmImport(f, checked)
  \/ \E sz \in ViewportSizes : SetViewportSize(sz)
  \/ AddInitialSampleCards

\* the store operations wait while the dialog, which is modal, is open
ImportNext ==
  \/ \E content \in FileContents : FileChange(content)
  \/ \E checked \in Selections : DialogConfirmImport(checked)
  \/ DialogClose
  \/ ~isImportDialogOpen /\ \E p \in CardPositions : AddCard("", p)
  \/ ~isImportDialogOpen /\ \E c \in CardIdArgs : DeleteCard(c)
  \/ ~isImportDialogOpen /\ \E w \in WorkspaceIdArgs : SwitchWorkspace(w)
  \/ ~isImportDialogOpen /\ \E v \in ViewStateUpdates : UpdateViewState(v)

vars == <<storeVars, viewVars, cardVars, importVars, toastsPushed, ops, thrown, lastOp, before>>

StoreSpec == StoreInit /\ [][StoreNext]_vars
ViewSpec == ViewInit /\ [][ViewNext]_vars
CardSpec == CardInit /\ [][CardNext]_vars
SidebarSpec == SidebarInit /\ [][SidebarNext]_vars
ImportSpec == StoreInit /\ [][ImportNext]_vars
TeardownSpec == CardInit /\ [][TeardownNext]_vars
PanningSpec == PanningInit /\ [][ViewNext]_vars

(***************************************************************************)
(* Properties of the store.                                                *)
(***************************************************************************)
Count(q, e) == Cardinality({i \in DOMAIN q : q[i] = e})

\* C4: if workspaces is non-empty, currentWorkspaceId is the key of an
\* existing workspace, after any sequence of createWorkspace,
\* switchWorkspace, deleteWorkspace and import operations.
C4_CurrentWorkspaceExists ==
  Keys(appState.workspaces) # {} =>
    appState.currentWorkspaceId \in Keys(appState.workspaces)

\* a state right after the current workspace was deleted
C4_Witness ==
  /\ lastOp.op = "deleteWorkspace"
  /\ lastOp.args[1] = before.appState.currentWorkspaceId
  /\ ~Has(appState.workspaces, lastOp.args[1])

\* C5: deleteWorkspace applied to the only remaining workspace leaves
\* AppState unchanged, and the number of workspaces never drops below one.
C5_DeletionGuard ==
  /\ (/\ lastOp.op = "deleteWorkspace"
      /\ Cardinality(Keys(before.appState.workspaces)) = 1)
       => (/\ appState.workspaces = before.appState.workspaces
           /\ appState.currentWorkspaceId = before.appState.currentWorkspaceId)
  /\ Cardinality(Keys(appState.workspaces)) >= 1

\* a state right after deleteWorkspace was applied to the only workspace
C5_Witness ==
  /\ lastOp.op = "deleteWorkspace"
  /\ Keys(before.appState.workspaces) = {lastOp.args[1]}

\* C6: for every workspace, cardOrder is a permutation of the keys of cards.
C6_CardOrderIsPermutation ==
  \A w \in Keys(appState.workspaces) :
    LET ws == appState.workspaces[w] IN
    /\ HasCardOrder(ws)
    /\ Range(ws.cardOrder) = Keys(ws.cards)
    /\ Len(ws.cardOrder) = Cardinality(Keys(ws.cards))

\* C7: bringCardToFront(id) applied twice in a row yields the same sequence
\* as applied once, with id as the last element, occurring exactly once.
C7_BringToFrontIdempotent ==
  /\ \A id \in CardIdArgs :
       LET once == bringCardToFrontFn(interactionOrder, id) IN
       /\ bringCardToFrontFn(once, id) = once
       /\ once[Len(once)] = id
       /\ Count(once, id) = 1
  /\ lastOp.op = "bringCardToFront" =>
       /\ interactionOrder[Len(interactionOrder)] = lastOp.args[1]
       /\ Count(interactionOrder, lastOp.args[1]) = 1
       /\ (before.op.op = "bringCardToFront" /\ before.op.args = lastOp.args)
            => interactionOrder = before.interactionOrder

\* bringCardToFront(id) was applied twice in a row to an order of two cards
\* or more
C7_Witness ==
  /\ lastOp.op = "bringCardToFront"
  /\ before.op.op = "bringCardToFront"
  /\ before.op.args = lastOp.args
  /\ Len(interactionOrder) >= 2

\* C8: updateCardPosition, updateCardSize, updateCardText and deleteCard
\* with a card id absent from the current workspace, and switchWorkspace and
\* deleteWorkspace with a workspace id absent from workspaces, leave
\* AppState unchanged and raise no error.
CardTargetOps == {"updateCardPosition", "updateCardSize", "updateCardText", "deleteCard"}
WorkspaceTargetOps == {"switchWorkspace", "deleteWorkspace"}
InvalidTarget ==
  \/ lastOp.op \in CardTargetOps /\ ~CardExists(before.appState, lastOp.args[1])
  \/ lastOp.op \in WorkspaceTargetOps /\ ~Has(before.appState.workspaces, lastOp.args[1])

C8_InvalidTargetNoOp ==
  InvalidTarget =>
    /\ appState.workspaces = before.appState.workspaces
    /\ appState.currentWorkspaceId = before.appState.currentWorkspaceId
    /\ ~thrown

\* an update of a card that is in another workspace than the current one
C8_Witness ==
  /\ lastOp.op = "updateCardText"
  /\ ~CardExists(before.appState, lastOp.args[1])
  /\ lastOp.args[1] \in AllCardIds(before.appState)

(***************************************************************************)
(* Properties of the view controller, checked under ViewSpec.  Coordinates *)
(* and zoom are exact rationals here; the rounding of the doubles the      *)
(* program computes with is outside the model.                             *)
(***************************************************************************)
ZoomInRange(z) == RLe(MinZoom, z) /\ RLe(z, MaxZoom)

\* C1: starting from a stored zoom in [0.1, 10], after any sequence of wheel,
\* pinch and pan events the live zoom and the zoom held by the store are both
\* in [0.1, 10].
C1_ZoomClamp ==
  /\ ZoomInRange(zoom)
  /\ ZoomInRange(CurrentViewStateOf(appState).zoom)

\* a pinch that asked for a zoom below 0.1 has ended and committed 0.1
C1_Witness ==
  /\ lastOp.op = "touchend"
  /\ before.isPinching
  /\ ~isPinching
  /\ CurrentViewStateOf(appState).zoom = MinZoom
  /\ before.viewState.zoom # MinZoom

\* the workspace point under the screen point pt for a view (pn, z)
PointUnder(pt, pn, z) == PDiv(PSub(pt, pn), z)

\* C2: after a wheel zoom at the screen point pt, the workspace point that was
\* under pt before the zoom is still under pt, also when the new zoom was
\* clamped; from pan (0,0), zoom 1 to zoom 2 at (100,100) the new pan is
\* (-100,-100).
C2_ZoomToCursorFixedPoint ==
  /\ lastOp.op = "wheel" =>
       PointUnder(lastOp.args[2], pan, zoom)
         = PointUnder(lastOp.args[2], before.pan, before.zoom)
  /\ WheelNewPan(P(100, 100), P(0, 0), R(1), R(2)) = P(-100, -100)

\* a wheel zoom-in away from the origin whose zoom was clamped to 10 and
\* whose pan moved
C2_Witness ==
  /\ lastOp.op = "wheel"
  /\ lastOp.args[2] # P(0, 0)
  /\ zoom = MaxZoom
  /\ zoom # WheelNewZoom(before.zoom, lastOp.args[1])
  /\ before.zoom # MaxZoom
  /\ pan # before.pan

(***************************************************************************)
(* Properties of the pointer gestures of the cards, checked under          *)
(* CardSpec.  Coordinates, sizes and zoom are exact rationals.             *)
(***************************************************************************)
SizeAtLeast(size, w, h) == RLe(R(w), size.width) /\ RLe(R(h), size.height)

\* C3: every size the resize controller writes to the store has width >= 150
\* and height >= 80, whatever the pointer deltas and the zoom of the moves;
\* so every stored size of a card keeps these minimums.
C3_MinimumSize ==
  /\ lastOp.op = "animationFrame" =>
       \A i \in 1..Len(lastOp.args) : SizeAtLeast(lastOp.args[i], 150, 80)
  /\ \A c \in MountedCards(appState) :
       HasSize(appState, c) => SizeAtLeast(CurrentCardsOf(appState)[c].size, 150, 80)

\* a resize move far to the upper left was written as the minimum size
C3_Witness ==
  /\ lastOp.op = "animationFrame"
  /\ Len(lastOp.args) >= 1
  /\ lastOp.args[1] = Size(150, 80)
  /\ \E c \in MountedCards(appState) :
       /\ resize[c].isResizing
       /\ CurrentCardsOf(appState)[c].size = Size(150, 80)
       /\ CurrentCardsOf(before.appState)[c].size = Size(200, 100)

\* the frames of a requestAnimationFrame queue whose callback writes a size:
\* those of the cards whose resize is still going on
WritingFrames(q, rs) == SelectSeq(q, LAMBDA f : rs[f.cardId].resizeStartSize # NullSize)

\* the size a resize move asks for: the start size S plus the screen-space
\* pointer delta d over the zoom z, not below 150 x 80
AskedSize(S, d, z) ==
  [width |-> RMax(R(150), RAdd(S.width, RDiv(d.x, z))),
   height |-> RMax(R(80), RAdd(S.height, RDiv(d.y, z)))]

\* C11: the size written for a resize move with start size S and screen-space
\* pointer delta d at zoom z has width max(150, S.width + d.x/z) and, before
\* the content-driven minimum, height max(80, S.height + d.y/z): the written
\* height is that height or, where it is more, the height the text asks for;
\* (200,100) with delta (+50,+20) at zoom 1 gives (250,120), and delta -300 on
\* width 200 gives width 150.
C11_ResizeComputation ==
  [][/\ lastOp'.op = "animationFrame" =>
          LET moves == WritingFrames(frames, resize)
              written == lastOp'.args
          IN /\ Len(written) = Len(moves)
             /\ \A i \in 1..Len(moves) :
                  LET r == resize[moves[i].cardId]
                      asked == AskedSize(r.resizeStartSize,
                                         PSub(moves[i].client, r.resizeStartPointer),
                                         moves[i].zoom)
                  IN /\ written[i].width = asked.width
                     /\ \E sh \in ScrollHeights :
                          written[i].height =
                            RMax(asked.height, RAdd(sh, R(CardContentVerticalPadding)))
                     /\ (\A j \in (i + 1)..Len(moves) : moves[j].cardId # moves[i].cardId)
                          => CurrentCardsOf(appState')[moves[i].cardId].size = written[i]
     /\ ResizeSize(Size(200, 100), P(0, 0), P(50, 20), R(1), R(0)) = Size(250, 120)
     /\ ResizeSize(Size(200, 100), P(0, 0), P(-300, 0), R(1), R(0)).width = R(150)
    ]_vars

\* a resize move by (+100,+100) at zoom 2 was written as (250,150): above the
\* minimums and above what the text asks for
C11_Witness ==
  /\ lastOp.op = "animationFrame"
  /\ Len(lastOp.args) = 1
  /\ lastOp.args[1] = Size(250, 150)
  /\ CurrentViewStateOf(appState).zoom = R(2)
  /\ \E c \in MountedCards(appState) :
       /\ resize[c].isResizing
       /\ resize[c].resizeStartSize = Size(200, 100)
       /\ CurrentCardsOf(appState)[c].size = Size(250, 150)

PositionOf(state, c) == CurrentCardsOf(state)[c].position

\* the scenario of the drag: card at (50,50), pan (0,0), zoom 1, pointer down
\* at (60,60) and moved to (160,160)
ScenarioState ==
  [appState |-> TwoCards, interactionOrder |-> <<Uuid(1), Uuid(2)>>,
   drag |-> [c \in MountedCards(TwoCards) |-> IdleDrag],
   resize |-> [c \in MountedCards(TwoCards) |-> IdleResize],
   frames |-> <<>>, written |-> <<>>, bodyStyle |-> ReleasedStyle]
ScenarioEnd ==
  handleDrag(startDrag(ScenarioState, Uuid(1), P(60, 60), NoTouch, TRUE),
             Uuid(1), P(160, 160))

\* C9: while a drag is active and pan and zoom are what they were when it
\* started, every move event of the drag's pointer to p sets the card's
\* stored position to (p - pan)/zoom - offset, with the offset recorded at
\* the start of the drag, which is the start position plus (p - pStart)/zoom;
\* a card at (50,50) dragged from (60,60) to (160,160) at pan (0,0), zoom 1
\* ends at (150,150).
C9_DragTracksPointer ==
  /\ \A c \in MountedCards(appState) :
       LET g == dragStart[c]
           byMouse == lastOp.op = "window.mousemove" /\ g.by = NoTouch
           byTouch == lastOp.op = "window.touchmove" /\ g.by \in Keys(touches)
           p == IF byMouse THEN lastOp.args[1] ELSE touches[g.by]
           view == CurrentViewStateOf(appState)
           offset == PSub(ToWorkspace(g.pointer, g.view), g.position)
       IN (/\ lastOp.op \in {"window.mousemove", "window.touchmove"}
           /\ before.drag[c].isDragging
           /\ byMouse \/ byTouch
           /\ g.view = view) =>
            /\ PositionOf(appState, c) = PSub(ToWorkspace(p, view), offset)
            /\ PositionOf(appState, c) =
                 PAdd(g.position, PDiv(PSub(p, g.pointer), view.zoom))
  /\ PositionOf(TwoCards, Uuid(1)) = P(50, 50)
  /\ PositionOf(ScenarioEnd.appState, Uuid(1)) = P(150, 150)

\* the card at (50,50) was dragged by the mouse from (60,60) to (160,160) at
\* pan (0,0), zoom 1
C9_Scenario ==
  /\ lastOp.op = "window.mousemove"
  /\ lastOp.args[1] = P(160, 160)
  /\ before.drag[Uuid(1)].isDragging
  /\ dragStart[Uuid(1)].pointer = P(60, 60)
  /\ dragStart[Uuid(1)].position = P(50, 50)
  /\ CurrentViewStateOf(appState) = DefaultViewState
  /\ PositionOf(appState, Uuid(1)) = P(150, 150)

DragStartOrEnd ==
  lastOp.op \in {"card.mousedown", "card.touchstart", "delete.mousedown",
                 "window.mouseup", "window.touchend"}

\* C10: a drag that starts and ends with no move event in between leaves the
\* card's stored position as it was: the events that start or end a drag
\* write no position, and a card whose drag has seen no move is where it was
\* when the drag started.
C10_NoMoveDragKeepsPosition ==
  /\ DragStartOrEnd =>
       \A c \in MountedCards(appState) :
         PositionOf(appState, c) = PositionOf(before.appState, c)
  /\ \A c \in MountedCards(appState) :
       (dragStart[c].set /\ ~dragStart[c].moved) =>
          PositionOf(appState, c) = dragStart[c].position

\* a mouse drag of the first card has ended without a move; the card is in
\* front now
C10_Witness ==
  /\ lastOp.op = "window.mouseup"
  /\ before.drag[Uuid(1)].isDragging
  /\ ~drag[Uuid(1)].isDragging
  /\ dragStart[Uuid(1)].set
  /\ ~dragStart[Uuid(1)].moved
  /\ interactionOrder = <<Uuid(2), Uuid(1)>>
  /\ before.interactionOrder = <<Uuid(2), Uuid(1)>>

(***************************************************************************)
(* More properties of the store, checked under StoreSpec.                  *)
(***************************************************************************)
\* the current workspace of a state is there and has the Workspace shape
ValidCurrentWorkspace(state) ==
  HasCurrentWorkspace(state) /\ HasCardOrder(CurrentWorkspaceOf(state))

\* every workspace but w is in both states, and the same in both
OtherWorkspacesSame(a, b, w) ==
  /\ Keys(a.workspaces) = Keys(b.workspaces)
  /\ \A k \in Keys(a.workspaces) \ {w} : a.workspaces[k] = b.workspaces[k]

\* C12: addCard(text, position) in a state with a valid current workspace adds
\* exactly one card, with an id that was no key of cards, size 200 x 100 and
\* position = position - (100, 50); that id is appended to the end of the
\* workspace's cardOrder and of the interaction order and becomes
\* lastCreatedCardId, all from the one call.
C12_AddCard ==
  (lastOp.op = "addCard" /\ ValidCurrentWorkspace(before.appState)) =>
     LET id == lastOp.args[1]
         old == CurrentWorkspaceOf(before.appState)
         new == CurrentWorkspaceOf(appState)
     IN /\ ~thrown
        /\ appState.currentWorkspaceId = before.appState.currentWorkspaceId
        /\ OtherWorkspacesSame(appState, before.appState, appState.currentWorkspaceId)
        /\ id \notin Keys(old.cards)
        /\ Keys(new.cards) = Keys(old.cards) \cup {id}
        /\ \A k \in Keys(old.cards) : new.cards[k] = old.cards[k]
        /\ new.cards[id] = [id |-> id, text |-> lastOp.args[2],
                            position |-> PSub(lastOp.args[3], P(100, 50)),
                            size |-> Size(200, 100)]
        /\ new.cardOrder = Append(old.cardOrder, id)
        /\ new.name = old.name /\ new.viewState = old.viewState /\ new.id = old.id
        /\ interactionOrder = Append(before.interactionOrder, id)
        /\ lastCreatedCardId = id

\* a card was added at (60,60) to a workspace that had a card already
C12_Witness ==
  /\ lastOp.op = "addCard"
  /\ lastOp.args[3] = P(60, 60)
  /\ ValidCurrentWorkspace(before.appState)
  /\ Len(CurrentWorkspaceOf(before.appState).cardOrder) >= 1
  /\ Len(before.interactionOrder) >= 1
  /\ CurrentWorkspaceOf(appState).cards[lastOp.args[1]].position = P(-40, 10)

\* the ids of q other than id, in the order of q
Others(q, id) == SelectSeq(q, LAMBDA e : e # id)

\* what deleteCard(id) is to leave behind in the current workspace and in the
\* interaction order
Deleted(id) ==
  LET old == CurrentWorkspaceOf(before.appState)
      new == CurrentWorkspaceOf(appState)
  IN /\ ~thrown
     /\ appState.currentWorkspaceId = before.appState.currentWorkspaceId
     /\ OtherWorkspacesSame(appState, before.appState, appState.currentWorkspaceId)
     /\ Keys(new.cards) = Keys(old.cards) \ {id}
     /\ \A k \in Keys(new.cards) : new.cards[k] = old.cards[k]
     /\ HasCardOrder(new)
     /\ id \notin Range(new.cardOrder)
     /\ HasCardOrder(old) => new.cardOrder = Others(old.cardOrder, id)
     /\ id \notin Range(interactionOrder)
     /\ interactionOrder = Others(before.interactionOrder, id)
     /\ new.viewState = old.viewState
     /\ new.name = old.name /\ new.id = old.id

\* C13: deleteCard(cardId) for a card present in the current workspace removes
\* the id from cards, from cardOrder and from the interaction order, and leaves
\* every other card, the relative order of the remaining ids and the view
\* state unchanged.
C13_DeleteCard ==
  (lastOp.op = "deleteCard" /\ CardExists(before.appState, lastOp.args[1])) =>
     Deleted(lastOp.args[1])

\* what C13 says holds where the current workspace has a cardOrder
C13_DeleteCardWithOrder ==
  (/\ lastOp.op = "deleteCard"
   /\ CardExists(before.appState, lastOp.args[1])
   /\ HasCardOrder(CurrentWorkspaceOf(before.appState))) =>
     Deleted(lastOp.args[1])

\* deleteCard was called for a card of a current workspace with a cardOrder,
\* and the card has gone
C13_DeletedWithOrder ==
  /\ lastOp.op = "deleteCard"
  /\ CardExists(before.appState, lastOp.args[1])
  /\ HasCardOrder(CurrentWorkspaceOf(before.appState))
  /\ lastOp.args[1] \in Range(before.interactionOrder)
  /\ ~CardExists(appState, lastOp.args[1])

(***************************************************************************)
(* Properties of the navigation from the sidebar, checked under            *)
(* SidebarSpec.                                                            *)
(***************************************************************************)
\* where the workspace point q is on the screen: q * zoom + pan, the
\* transform of the content box (Workspace.tsx:100-101)
ToScreen(q, view) == PAdd(PScale(q, view.zoom), view.pan)

NonZeroViewport == ~RIsZero(viewportSize.width) /\ ~RIsZero(viewportSize.height)
ScreenCentre == Point(RDiv(viewportSize.width, R(2)), RDiv(viewportSize.height, R(2)))

\* C14: centerOnPoint(point) with a non-zero viewport (w, h) sets the current
\* workspace's pan to (w/2 - point.x*zoom, h/2 - point.y*zoom), so that point
\* is at the screen centre (w/2, h/2) under the resulting view, and leaves
\* the zoom unchanged.
C14_CenterOnPoint ==
  (lastOp.op = "centerOnPoint" /\ NonZeroViewport) =>
     LET point == lastOp.args[1]
         view == CurrentViewStateOf(appState)
         z == CurrentViewStateOf(before.appState).zoom
     IN /\ view.pan = Point(RSub(RDiv(viewportSize.width, R(2)), RMul(point.x, z)),
                            RSub(RDiv(viewportSize.height, R(2)), RMul(point.y, z)))
        /\ ToScreen(point, view) = ScreenCentre
        /\ view.zoom = z
        /\ ~thrown

\* the point (150,-100) was centered in a viewport of 1025 x 768 at zoom 1/2
C14_Witness ==
  /\ lastOp.op = "centerOnPoint"
  /\ lastOp.args[1] = P(150, -100)
  /\ viewportSize = Size(1025, 768)
  /\ CurrentViewStateOf(appState).zoom = Frac(1, 2)
  /\ CurrentViewStateOf(appState).pan = Point(Frac(875, 2), R(434))
  /\ CurrentViewStateOf(before.appState).pan # CurrentViewStateOf(appState).pan

\* a click in the sidebar's card list on a card of the current workspace
SidebarClicked ==
  /\ lastOp.op = "sidebar.cardClick"
  /\ Has(CurrentCardsOf(before.appState), lastOp.args[1])
  /\ NonZeroViewport

\* C15: clicking a card in the sidebar's card list centers the view on the
\* card's centre (position + size/2) and brings the card to the front: its id
\* becomes the last element of the interaction order.
C15_SidebarClickCentersAndFronts ==
  SidebarClicked =>
     LET card == CurrentCardsOf(before.appState)[lastOp.args[1]]
         centre == Point(RAdd(card.position.x, RDiv(card.size.width, R(2))),
                         RAdd(card.position.y, RDiv(card.size.height, R(2))))
     IN /\ ToScreen(centre, CurrentViewStateOf(appState)) = ScreenCentre
        /\ interactionOrder # <<>>
        /\ interactionOrder[Len(interactionOrder)] = lastOp.args[1]

\* the first half of C15 alone: the click centers the view on the card's centre
C15_SidebarClickCenters ==
  SidebarClicked =>
     LET card == CurrentCardsOf(before.appState)[lastOp.args[1]]
         centre == Point(RAdd(card.position.x, RDiv(card.size.width, R(2))),
                         RAdd(card.position.y, RDiv(card.size.height, R(2))))
     IN ToScreen(centre, CurrentViewStateOf(appState)) = ScreenCentre

\* the click left the interaction order as it was
C15_SidebarClickKeepsOrder ==
  lastOp.op = "sidebar.cardClick" => interactionOrder = before.interactionOrder

(***************************************************************************)
(* Properties of the import, checked under StoreSpec.                      *)
(***************************************************************************)
\* the ids of the workspaces listed in the dialog
ListedIds(entries) == {entries[i].ws.id : i \in DOMAIN entries}
\* the selected ids: listed, ticked, and naming a workspace of the file
SelectedOf(entries, checked) == ListedIds(entries) \cap checked \cap EntryKeys(entries)

\* C16: confirming an import sets workspaces[id] to the imported data for
\* exactly the selected ids, overwriting an existing workspace with the same
\* id, and leaves every other workspace and currentWorkspaceId unchanged.
C16_ImportMergesById ==
  lastOp.op = "confirmImport" =>
     LET entries == lastOp.args[1]
         selected == SelectedOf(entries, lastOp.args[2])
         old == before.appState.workspaces
         new == appState.workspaces
     IN /\ Keys(new) = Keys(old) \cup selected
        /\ \A id \in selected :
             \E i \in DOMAIN entries : entries[i].key = id /\ new[id] = entries[i].ws
        /\ \A id \in Keys(old) \ selected : new[id] = old[id]
        /\ appState.currentWorkspaceId = before.appState.currentWorkspaceId
        /\ ~thrown

\* an import of two workspaces with only the new one ticked: it was added, the
\* workspace of the file that has the id of an existing one was not taken
C16_Witness ==
  /\ lastOp.op = "confirmImport"
  /\ Len(lastOp.args[1]) = 2
  /\ SelectedOf(lastOp.args[1], lastOp.args[2]) = {FileId(1)}
  /\ ~Has(before.appState.workspaces, FileId(1))
  /\ appState.workspaces[FileId(1)] = FileWsGood(FileId(1))
  /\ appState.workspaces[initialWorkspaceId] = before.appState.workspaces[initialWorkspaceId]
  /\ appState.workspaces[initialWorkspaceId] # FileWsEmpty(initialWorkspaceId)

\* an import whose workspace overwrote the existing workspace of the same id
C16_Overwritten ==
  /\ lastOp.op = "confirmImport"
  /\ initialWorkspaceId \in SelectedOf(lastOp.args[1], lastOp.args[2])
  /\ before.appState.workspaces[initialWorkspaceId] # appState.workspaces[initialWorkspaceId]
  /\ appState.workspaces[initialWorkspaceId].name = "Imported"

(***************************************************************************)
(* Properties of the import, step by step, checked under ImportSpec.       *)
(***************************************************************************)
HasWorkspaceFields(v) ==
  "name" \in DOMAIN v /\ "cards" \in DOMAIN v /\ "viewState" \in DOMAIN v

\* the file is not JSON, is not a JSON object, or has no entry with name,
\* cards and viewState
Malformed(content) ==
  \/ ~content.json
  \/ ~content.object
  \/ \A i \in DOMAIN content.entries : ~HasWorkspaceFields(content.entries[i].ws)

\* C17: when the chosen file is not JSON, is not a JSON object, or contains no
\* entry having name, cards and viewState, an error message is pushed,
\* AppState is unchanged and the import dialog is not opened.
C17_MalformedImportAborts ==
  (lastOp.op = "fileChange" /\ Malformed(lastOp.args[1])) =>
     /\ appState = before.appState
     /\ interactionOrder = before.interactionOrder
     /\ Len(toastsPushed) = 1
     /\ toastsPushed[1] = FileErrorMessage(lastOp.args[1])
     /\ ~isImportDialogOpen
     /\ importedWorkspaces = <<>>
     /\ ~thrown

\* a file whose only entry is an object without viewState was chosen, after
\* an import that went through
C17_Witness ==
  /\ lastOp.op = "fileChange"
  /\ lastOp.args[1] = JsonObject(<<Entry(FileId(1), FileWsNoView(FileId(1)))>>)
  /\ toastsPushed # <<>>
  /\ ~isImportDialogOpen
  /\ Has(appState.workspaces, FileId(1))

WorkspaceFields == {"id", "name", "cards", "viewState", "cardOrder"}

\* the store operations applied after an import end without an exception
C18_StoreOperationsComplete ==
  lastOp.op \in {"addCard", "deleteCard", "updateViewState"} => ~thrown

\* C18: every workspace that enters AppState through import has id, name,
\* cards, viewState and cardOrder, so that addCard, deleteCard and
\* updateViewState applied afterwards to an imported workspace complete
\* without error.
C18_ImportedWorkspaceShape ==
  /\ lastOp.op = "confirmImport" =>
       \A id \in SelectedOf(lastOp.args[1], lastOp.args[2]) :
          WorkspaceFields \subseteq DOMAIN appState.workspaces[id]
  /\ C18_StoreOperationsComplete

\* an imported workspace with a cardOrder is the current one, and a card was
\* added to it
C18_AddedToImported ==
  /\ lastOp.op = "addCard"
  /\ appState.currentWorkspaceId = FileId(1)
  /\ ~thrown
  /\ Len(CurrentWorkspaceOf(appState).cardOrder) = 2

(***************************************************************************)
(* Properties of the interaction order, checked under SidebarSpec.         *)
(***************************************************************************)
\* a is somewhere before b in q
Precedes(q, a, b) == \E i, j \in DOMAIN q : i < j /\ q[i] = a /\ q[j] = b

\* C19: bringCardToFront(id) preserves the relative order of every other id
\* of the interaction order: for all a, b different from id, a precedes b
\* after the call iff a preceded b before it, and no id other than id is
\* added or removed.
C19_BringToFrontKeepsOthers ==
  lastOp.op = "bringCardToFront" =>
     LET id == lastOp.args[1]
         old == before.interactionOrder
         new == interactionOrder
         others == (Range(old) \cup Range(new)) \ {id}
     IN /\ \A a, b \in others : Precedes(new, a, b) <=> Precedes(old, a, b)
        /\ Range(new) \ {id} = Range(old) \ {id}
        /\ \A a \in others : Count(new, a) = Count(old, a)

\* the first of three ids was brought to the front: the two others kept
\* their order
C19_Witness ==
  /\ lastOp.op = "bringCardToFront"
  /\ Len(before.interactionOrder) = 3
  /\ lastOp.args[1] = before.interactionOrder[1]
  /\ interactionOrder = <<before.interactionOrder[2], before.interactionOrder[3],
                          before.interactionOrder[1]>>

(***************************************************************************)
(* Properties of the coordinate transforms, checked under CardSpec.        *)
(* Coordinates and zoom are exact rationals; the rounding of the doubles   *)
(* the program computes with is outside the model.                         *)
(***************************************************************************)
\* views at the ends of the zoom range and in between, and screen points
SampleViews == {[pan |-> pn, zoom |-> z] : pn \in StoredPans, z \in StoredZooms}
SamplePoints == ClientPoints \cup MovePoints \cup {P(29, 71)}

RoundTrip(p, view) == ToScreen(ToWorkspace(p, view), view) = p
\* the round trip over the sample views, whose zooms span [0.1, 10]
SampleRoundTrips ==
  \A view \in SampleViews, p \in SamplePoints :
     ZoomInRange(view.zoom) /\ RoundTrip(p, view)

\* C20: for every point p and every view with zoom in [0.1, 10],
\* toScreen(toWorkspace(p, view), view) = p, where toWorkspace(p) is
\* (p - pan)/zoom and toScreen(q) is q*zoom + pan; so the point of a dragged
\* card that was under the pointer when the drag started is, after a move
\* event, on the screen where the pointer is.
C20_InverseTransform ==
  /\ ZoomInRange(CurrentViewStateOf(appState).zoom)
  /\ \A p \in SamplePoints : RoundTrip(p, CurrentViewStateOf(appState))
  /\ SampleRoundTrips
  /\ lastOp.op = "window.mousemove" =>
       \A c \in MountedCards(appState) :
          MouseMoveDrags(before.drag[c]) =>
             ToScreen(PAdd(PositionOf(appState, c), drag[c].dragStartOffset),
                      CurrentViewStateOf(appState)) = lastOp.args[1]

\* after a wheel zoom that left a pan other than (0,0) and a zoom other than
\* 1, a card was dragged by the mouse
C20_Witness ==
  /\ lastOp.op = "window.mousemove"
  /\ CurrentViewStateOf(appState).zoom # R(1)
  /\ CurrentViewStateOf(appState).pan # P(0, 0)
  /\ \E c \in MountedCards(appState) :
       /\ MouseMoveDrags(before.drag[c])
       /\ PositionOf(appState, c) # PositionOf(before.appState, c)
       /\ PositionOf(appState, c) =
            PSub(ToWorkspace(lastOp.args[1], CurrentViewStateOf(appState)),
                 drag[c].dragStartOffset)

(***************************************************************************)
(* Gesture arbitration of the view controller.                             *)
(***************************************************************************)
\* no pan and no pinch, and no window listener of the view controller
ViewIdle ==
  /\ ~isPanning
  /\ ~isPinching
  /\ listeners = {}
  /\ touchIdentifier = NoTouch
  /\ pinchTouches = {}

\* the last event was a press (mouse or touch) with its target inside a card
PressOnCard == lastOp.op \in {"mousedown", "touchstart"} /\ lastOp.args[1]

\* C21: a mouse press or a touch start whose target lies inside a card
\* element starts no pan and no pinch: isPanning, isPinching and the live
\* pan and zoom are what they were before the event, and a view controller
\* that was idle before the event is idle after it.
C21_CardPressStartsNoPan ==
  PressOnCard =>
    /\ isPanning = before.isPanning
    /\ isPinching = before.isPinching
    /\ pan = before.pan
    /\ zoom = before.zoom
    /\ (~before.isPanning /\ ~before.isPinching) => ViewIdle

\* the left button went down on a card while the view controller was idle
C21_Witness ==
  /\ lastOp.op = "mousedown"
  /\ lastOp.args[1]
  /\ lastOp.args[2] = 0
  /\ ~before.isPanning
  /\ ~before.isPinching
  /\ ViewIdle

\* two fingers went down on a card while the view controller was idle
C21_TouchWitness ==
  /\ lastOp.op = "touchstart"
  /\ lastOp.args[1]
  /\ Cardinality(Keys(lastOp.args[2])) = 2
  /\ ~before.isPanning
  /\ ~before.isPinching
  /\ ViewIdle

\* a second finger came down on the canvas background while one finger was
\* panning: event.touches has two touches
SecondFingerOnPan ==
  /\ lastOp.op = "touchstart"
  /\ ~lastOp.args[1]
  /\ before.isPanning
  /\ before.touchIdentifier # NoTouch
  /\ before.touchIdentifier \in Keys(touches)
  /\ Cardinality(Keys(touches)) = 2

\* C22: when a touch start with two touches arrives on the canvas background
\* while a single-finger pan is active, the pan ends and the view controller
\* is pinching.
C22_PinchCancelsPan ==
  SecondFingerOnPan => (~isPanning /\ isPinching)

\* what handleTouchStart does instead: it returns at once, the pan goes on
\* and no pinch starts
C22_SecondFingerIgnored ==
  SecondFingerOnPan =>
    /\ isPanning
    /\ ~isPinching
    /\ touchIdentifier = before.touchIdentifier
    /\ pinchTouches = {}

\* a second finger came down on the background during a one-finger pan
C22_SecondFingerLanded == SecondFingerOnPan

(***************************************************************************)
(* The gestures of one card against each other.                            *)
(***************************************************************************)
DraggingAndResizing(c) == drag[c].isDragging /\ resize[c].isResizing

\* C23: in no reachable state, under any interleaving of mouse and touch
\* presses on the body of a card and on its resize handle, is the card both
\* dragging and resizing.
C23_DragResizeExclusive ==
  \A c \in MountedCards(appState) : ~DraggingAndResizing(c)

\* a finger on the resize handle started a resize of a card that the mouse
\* was dragging
C23_SecondGestureStarted ==
  \E c \in MountedCards(appState) :
    /\ DraggingAndResizing(c)
    /\ drag[c].touchIdentifier = NoTouch
    /\ before.drag[c].isDragging
    /\ lastOp.op = "card.touchstart"
    /\ lastOp.args[1] = c
    /\ lastOp.args[2]

\* the last event was a press on the card c
PressedOn(c) ==
  /\ lastOp.op \in {"card.mousedown", "card.touchstart"}
  /\ lastOp.args[1] = c

\* a press on a card in text-edit mode starts nothing: the card's position,
\* the interaction order and the card's drag and resize are what they were
PressOnEditingChangesNothing ==
  \A c \in editing \cap MountedCards(appState) :
    PressedOn(c) =>
      /\ PositionOf(appState, c) = PositionOf(before.appState, c)
      /\ interactionOrder = before.interactionOrder
      /\ drag[c] = before.drag[c]
      /\ resize[c] = before.resize[c]

\* C24: in no reachable state is a card both in text-edit mode and dragging,
\* and no press on a card in text-edit mode changes its position or the
\* interaction order.
C24_NoDragWhileEditing ==
  /\ \A c \in editing : ~drag[c].isDragging
  /\ PressOnEditingChangesNothing

\* the half that the isEnabled flag gives: a press on an editing card starts
\* no drag and no resize
C24_PressOnEditingCard == PressOnEditingChangesNothing

\* the left button went down on the body of an idle card in text-edit mode,
\* which is not the last of the interaction order
C24_PressedWhileEditing ==
  \E c \in editing \cap MountedCards(appState) :
    /\ lastOp.op = "card.mousedown"
    /\ lastOp.args = <<c, FALSE, 0, PressPoint>>
    /\ ~drag[c].isDragging
    /\ interactionOrder[Len(interactionOrder)] # c

\* a double click put a card in text-edit mode while a finger was dragging it
C24_EditingStartedInDrag ==
  \E c \in editing :
    /\ lastOp.op = "card.dblclick"
    /\ lastOp.args = <<c>>
    /\ drag[c].isDragging
    /\ drag[c].touchIdentifier # NoTouch

\* the last event was a press on the body of c while c was dragging
SecondPress(c) ==
  /\ lastOp.op \in {"card.mousedown", "card.touchstart"}
  /\ lastOp.args[1] = c
  /\ ~lastOp.args[2]
  /\ before.drag[c].isDragging

\* the last event moved the pointer that started the drag of c
MoveOfOriginalPointer(c) ==
  \/ lastOp.op = "window.mousemove" /\ dragStart[c].by = NoTouch
  \/ lastOp.op = "window.touchmove" /\ dragStart[c].by = lastOp.args[1]

\* C25: a second pointer or touch arriving on a card while its drag is in
\* progress does not change the recorded drag offset or the tracked touch
\* identifier, and only moves of the pointer that started the drag change
\* the card's position.
C25_OneDragPerCard ==
  \A c \in MountedCards(appState) :
    /\ SecondPress(c) => drag[c] = before.drag[c]
    /\ (/\ lastOp.op \in {"window.mousemove", "window.touchmove"}
        /\ before.drag[c].isDragging
        /\ PositionOf(appState, c) # PositionOf(before.appState, c))
         => MoveOfOriginalPointer(c)

\* what holds of fingers alone: a second finger on a card that a finger is
\* dragging is ignored, two touches being on the screen then
C25_SecondFingerIgnored ==
  \A c \in MountedCards(appState) :
    (/\ SecondPress(c)
     /\ lastOp.op = "card.touchstart"
     /\ before.drag[c].touchIdentifier \in Keys(touches))
       => drag[c] = before.drag[c]

\* a second finger came down on a card that a finger was dragging, after a
\* move of the first
C25_SecondFingerLanded ==
  \E c \in MountedCards(appState) :
    /\ SecondPress(c)
    /\ lastOp.op = "card.touchstart"
    /\ before.drag[c].touchIdentifier \in Keys(touches)
    /\ dragStart[c].moved

\* a finger came down on a card that the mouse was dragging, and the drag
\* now follows the finger
C25_FingerTookOver ==
  \E c \in MountedCards(appState) :
    /\ SecondPress(c)
    /\ lastOp.op = "card.touchstart"
    /\ before.drag[c].touchIdentifier = NoTouch
    /\ drag[c].touchIdentifier = lastOp.args[3]

(***************************************************************************)
(* Teardown.                                                               *)
(***************************************************************************)
\* the cards whose hooks are mounted
HooksOf == IF canvasMounted THEN MountedCards(appState) ELSE {}
\* the cards that were unmounted
UnmountedCards == (DOMAIN drag) \ HooksOf
\* the cards whose hooks have window listeners attached: the effects attach
\* them while the gesture is on and the hooks are mounted
CardsListening == {c \in HooksOf : drag[c].isDragging \/ resize[c].isResizing}
\* events on window
WindowEventsOfView == {"mousemove", "mouseup", "touchmove", "touchend"}

\* an unmounted canvas has its pan or pinch ended, no listener of its own on
\* window and its cursor released, and no later event on window changes the
\* view, live or stored
CanvasTornDown ==
  ~canvasMounted =>
    /\ ViewIdle
    /\ cursor = "auto"
    /\ lastOp.op \in WindowEventsOfView =>
         /\ CurrentViewStateOf(appState) = before.viewState
         /\ pan = before.pan
         /\ zoom = before.zoom

\* once cards were unmounted and no mounted card has a drag or a resize in
\* progress, the text selection and the cursor of the document are released
StyleReleased ==
  (UnmountedCards # {} /\ CardsListening = {}) => bodyStyle = ReleasedStyle

\* C26: if a card or the canvas is unmounted while a drag, resize, pan or
\* pinch is in progress, the gesture is force-ended: none of the listeners
\* of the unmounted controller remain attached, the pointer styling it
\* captured (text-selection suppression, cursor) is released, and no later
\* pointer event changes the store through it.
C26_Teardown ==
  /\ CanvasTornDown
  /\ StyleReleased
  /\ CardsListening \cap UnmountedCards = {}

\* the half that holds, the canvas
C26_CanvasTeardown == CanvasTornDown

\* the canvas was unmounted during the pan of a finger, which moved
\* afterwards: the pan did not follow it
C26_CanvasUnmountedInPan ==
  /\ ~canvasMounted
  /\ lastOp.op = "touchmove"
  /\ startPanPoint = P(30, 40)
  /\ touches[lastOp.args[1]] = P(60, 80)
  /\ pan = P(0, 0)

\* a card was deleted while it was dragging, no gesture is left, and the
\* text selection of the document is still suppressed
C26_StyleLeftCaptured ==
  /\ lastOp.op = "card.delete"
  /\ before.drag[lastOp.args[1]].isDragging
  /\ CardsListening = {}
  /\ bodyStyle.userSelect = "none"

(***************************************************************************)
(* How gestures end.                                                       *)
(***************************************************************************)
\* the drag hook of c at rest: not dragging, no touch tracked
DragIdle(c) == ~drag[c].isDragging /\ drag[c].touchIdentifier = NoTouch

\* the last event was the end event of the gesture that dragged c: the left
\* button went up and the mouse had started the drag, or the finger that had
\* started it left the screen
EndOfDragOf(c) ==
  /\ before.drag[c].isDragging
  /\ \/ lastOp.op = "window.mouseup" /\ lastOp.args[1] = 0 /\ dragStart[c].by = NoTouch
     \/ lastOp.op = "window.touchend" /\ dragStart[c].by \in lastOp.args[1]

\* C27: once the end event of a gesture arrives (left mouse-up for a mouse
\* gesture, touch-end or touch-cancel of its finger for a touch gesture) the
\* controller is idle again, whatever start events came in between, and a
\* move event that finds the controller idle changes nothing.
C27_EndEventEndsDrag ==
  \A c \in MountedCards(appState) :
    /\ (lastOp.op \in {"window.mouseup", "window.touchend"} /\ EndOfDragOf(c))
         => DragIdle(c)
    /\ (/\ lastOp.op \in {"window.mousemove", "window.touchmove"}
        /\ ~before.drag[c].isDragging
        /\ ~before.resize[c].isResizing)
         => PositionOf(appState, c) = PositionOf(before.appState, c)

\* the left button went up on a drag that the mouse had started and a finger
\* had taken over: the card is dragging still
C27_MouseUpLeftDragging ==
  \E c \in MountedCards(appState) :
    /\ lastOp.op = "window.mouseup"
    /\ EndOfDragOf(c)
    /\ drag[c].isDragging
    /\ drag[c].touchIdentifier # NoTouch

\* the same of the view controller: the left button going up on a mouse
\* pan, the tracked finger leaving on a touch pan, every finger leaving on a
\* pinch, leave the controller idle with no listener on window; moves that
\* find no listener change neither pan nor zoom
C27_EndEventEndsPan ==
  /\ (/\ lastOp.op = "mouseup"
      /\ lastOp.args[1] = 0
      /\ before.isPanning
      /\ before.touchIdentifier = NoTouch) => ViewIdle
  /\ (/\ lastOp.op = "touchend"
      /\ before.isPanning
      /\ before.touchIdentifier \in lastOp.args[1]) => ViewIdle
  /\ (/\ lastOp.op = "touchend"
      /\ before.isPinching
      /\ touches = EmptyObj) => ViewIdle
  /\ (/\ lastOp.op \in {"mousemove", "touchmove"}
      /\ before.listeners = {}) => (pan = before.pan /\ zoom = before.zoom)

\* a touch pan ended by the lift of its finger after a press of the mouse
\* and a second finger had come in between
C27_PanEndedAfterOtherStarts ==
  /\ lastOp.op = "touchend"
  /\ before.isPanning
  /\ before.touchIdentifier \in lastOp.args[1]
  /\ touches # EmptyObj
  /\ ViewIdle

(***************************************************************************)
(* When gestures write to the store.                                       *)
(***************************************************************************)
\* a pan or a pinch is in progress
InGesture == isPanning \/ isPinching

\* where handleDrag puts c for a pointer at client
DraggedTo(c, client) ==
  PSub(ToWorkspace(client, CurrentViewStateOf(appState)), drag[c].dragStartOffset)

\* a step that is a move of a pan or pinch leaves the whole store as it was
MoveKeepsStore ==
  (InGesture /\ lastOp'.op \in {"mousemove", "touchmove"}) => appState' = appState

\* a step inside a gesture that is not a wheel event keeps the stored view
StoredViewKept ==
  (InGesture /\ InGesture' /\ lastOp'.op # "wheel")
    => CurrentViewStateOf(appState') = CurrentViewStateOf(appState)

\* a move of the pointer that drags c writes the position of c to the store
MoveWritesPosition ==
  \A c \in MountedCards(appState) :
    /\ (lastOp'.op = "window.mousemove" /\ MouseMoveDrags(drag[c]))
         => PositionOf(appState', c) = DraggedTo(c, lastOp'.args[1])
    /\ (lastOp'.op = "window.touchmove" /\ TouchMoveDrags(drag[c], touches'))
         => PositionOf(appState', c) = DraggedTo(c, touches'[drag[c].touchIdentifier])

\* C28: between the start and the end of a pan or pinch, move events change
\* the live pan/zoom only and the view state in the store stays what it was
\* when the gesture started (wheel events apart); a drag writes the card's
\* position to the store on every move.
C28_CommitAtGestureEnd ==
  [][MoveKeepsStore /\ StoredViewKept /\ MoveWritesPosition]_vars

\* a move of a pan has taken the live pan away from the stored one
C28_Witness ==
  /\ lastOp.op \in {"mousemove", "touchmove"}
  /\ InGesture
  /\ pan # before.pan
  /\ pan # CurrentViewStateOf(appState).pan
  /\ CurrentViewStateOf(appState) = before.viewState

\* a move of a pinch has taken the live zoom away from the stored one
C28_PinchMoved ==
  /\ lastOp.op = "touchmove"
  /\ isPinching
  /\ zoom # CurrentViewStateOf(appState).zoom

\* a move of a drag has written a new position of the card to the store
C28_DragMoveWritten ==
  \E c \in MountedCards(appState) :
    /\ lastOp.op \in {"window.mousemove", "window.touchmove"}
    /\ before.drag[c].isDragging
    /\ PositionOf(appState, c) # PositionOf(before.appState, c)

(***************************************************************************)
(* Live and committed view.                                                *)
(***************************************************************************)
\* the pan and zoom that drive the transform of the canvas
LiveView == [pan |-> pan, zoom |-> zoom]

\* C29: whenever no pan or pinch is in progress the live pan/zoom is the
\* view state of the current workspace in the store; what the release of a
\* pan or pinch commits is the pan/zoom the last move left, and a wheel zoom
\* commits the values it applies.
C29_LiveEqualsCommitted ==
  /\ ~InGesture => CurrentViewStateOf(appState) = LiveView
  /\ (/\ lastOp.op \in {"mouseup", "touchend"}
      /\ (before.isPanning \/ before.isPinching)
      /\ ~InGesture)
       => CurrentViewStateOf(appState) = [pan |-> before.pan, zoom |-> before.zoom]
  /\ lastOp.op = "wheel" => CurrentViewStateOf(appState) = LiveView

\* a pan that moved the canvas was released and its pan is in the store
C29_Witness ==
  /\ lastOp.op \in {"mouseup", "touchend"}
  /\ before.isPanning
  /\ ~InGesture
  /\ before.pan # before.viewState.pan
  /\ CurrentViewStateOf(appState).pan = before.pan

\* a pinch that changed the zoom was released and its zoom is in the store
C29_PinchReleased ==
  /\ lastOp.op = "touchend"
  /\ before.isPinching
  /\ ~InGesture
  /\ before.zoom # before.viewState.zoom
  /\ CurrentViewStateOf(appState).zoom = before.zoom

\* the store's view was set from outside with no gesture in progress, and
\* the live pan/zoom followed it
C29_ExternalUpdateFollowed ==
  /\ lastOp.op = "store.viewState"
  /\ ~InGesture
  /\ LiveView # [pan |-> before.pan, zoom |-> before.zoom]
  /\ LiveView = CurrentViewStateOf(appState)

(***************************************************************************)
(* Drag start and the interaction order.                                   *)
(***************************************************************************)
\* the last event started a drag of c
DragStartedOn(c) ==
  /\ lastOp.op \in {"card.mousedown", "card.touchstart", "delete.mousedown"}
  /\ lastOp.args[1] = c
  /\ ~before.drag[c].isDragging
  /\ drag[c].isDragging

\* c is the last element of the interaction order
IsFront(order, c) == order # <<>> /\ order[Len(order)] = c

\* C30: immediately after a drag starts, before any move or end, the id of
\* the card is the last element of the interaction order.
C30_DragStartBringsToFront ==
  \A c \in MountedCards(appState) : DragStartedOn(c) => IsFront(interactionOrder, c)

\* a drag started on a card that was not the last of the interaction order
C30_Witness ==
  \E c \in MountedCards(appState) :
    /\ DragStartedOn(c)
    /\ Len(before.interactionOrder) > 1
    /\ ~IsFront(before.interactionOrder, c)
    /\ IsFront(interactionOrder, c)

(***************************************************************************)
(* Presses on the controls of a card.                                      *)
(***************************************************************************)
\* the last event was a press on the resize handle of c
PressOnHandle(c) ==
  /\ lastOp.op \in {"card.mousedown", "card.touchstart"}
  /\ lastOp.args[1] = c
  /\ lastOp.args[2]

\* the last event was a press on the delete button of c
PressOnDeleteControl(c) == lastOp.op = "delete.mousedown" /\ lastOp.args[1] = c

\* the press left the drag hook, the interaction order and the position of
\* c as they were
PressLeftDragAlone(c) ==
  /\ drag[c] = before.drag[c]
  /\ interactionOrder = before.interactionOrder
  /\ PositionOf(appState, c) = PositionOf(before.appState, c)

\* C31: a press on the resize handle of a card or on its delete control
\* starts no drag: the drag hook stays idle, and the interaction order and
\* the position of the card are what they were.
C31_ControlPressStartsNoDrag ==
  \A c \in MountedCards(appState) :
    (/\ PressOnHandle(c) \/ PressOnDeleteControl(c)
     /\ ~before.drag[c].isDragging)
      => (~drag[c].isDragging /\ PressLeftDragAlone(c))

\* what holds: a press on the resize handle never changes the drag hook or
\* the position of the card
C31_HandlePressStartsNoDrag ==
  \A c \in MountedCards(appState) :
    PressOnHandle(c) => (drag[c] = before.drag[c]
                         /\ PositionOf(appState, c) = PositionOf(before.appState, c))

\* a press of the left button on the delete button of an idle card started
\* a drag of it
C31_DeletePressStartedDrag ==
  \E c \in MountedCards(appState) :
    /\ PressOnDeleteControl(c)
    /\ ~before.drag[c].isDragging
    /\ drag[c].isDragging
    /\ IsFront(interactionOrder, c)
    /\ ~IsFront(before.interactionOrder, c)

\* a press on the resize handle of a card that was not in front started a
\* resize and brought the card to front
C31_HandlePressBroughtToFront ==
  \E c \in MountedCards(appState) :
    /\ PressOnHandle(c)
    /\ resize[c].isResizing
    /\ ~drag[c].isDragging
    /\ interactionOrder # before.interactionOrder

(***************************************************************************)
(* Which touches drive a pan or a pinch.                                   *)
(***************************************************************************)
\* a single-finger pan was in progress when the last event came
TouchPanBefore ==
  before.isPanning /\ ~before.isPinching /\ before.touchIdentifier # NoTouch

\* the last event moved a touch other than the one the pan follows
OtherTouchMoved ==
  /\ lastOp.op = "touchmove"
  /\ TouchPanBefore
  /\ lastOp.args[1] # before.touchIdentifier

\* the last event took touches off the screen, the one the pan follows not
\* among them
OtherTouchEnded ==
  /\ lastOp.op = "touchend"
  /\ TouchPanBefore
  /\ before.touchIdentifier \notin lastOp.args[1]

\* the pan goes on as before and nothing was handed to the store
PanGoesOn ==
  /\ isPanning
  /\ touchIdentifier = before.touchIdentifier
  /\ listeners = before.listeners
  /\ LiveView = [pan |-> before.pan, zoom |-> before.zoom]
  /\ CurrentViewStateOf(appState) = before.viewState

\* during a pinch a move that leaves a touch other than the captured two on
\* the screen changes neither pan nor zoom
ThirdTouchLeavesPinch ==
  (/\ lastOp.op = "touchmove"
   /\ before.isPinching
   /\ ~(Keys(touches) \subseteq pinchTouches))
    => LiveView = [pan |-> before.pan, zoom |-> before.zoom]

\* a move of a pinch with the two captured touches on the screen takes zoom
\* and pan from the places of those two
CapturedTouchesDrivePinch ==
  (/\ lastOp.op = "touchmove"
   /\ before.isPinching
   /\ Keys(touches) = pinchTouches
   /\ ~RIsZero(initialPinchState.distance))
    => LET p1 == touches[Lo(pinchTouches)]
           p2 == touches[Hi(pinchTouches)]
       IN  LiveView = [pan |-> PinchNewPan(initialPinchState, p1, p2),
                       zoom |-> PinchNewZoom(initialPinchState, p1, p2)]

C32_OtherTouchLifted ==
  /\ OtherTouchEnded
  /\ PanGoesOn

\* a move of one of the two fingers of a pinch changed the zoom
C32_PinchFollowedCaptured ==
  /\ lastOp.op = "touchmove"
  /\ before.isPinching
  /\ Keys(touches) = pinchTouches
  /\ zoom # before.zoom

\* a second finger moved after a wheel event or a change of the stored view
\* during the pan, and the pan changed
C32_OtherTouchMovedPan ==
  /\ OtherTouchMoved
  /\ pan # before.pan

(***************************************************************************)
(* The arithmetic of a pinch.                                              *)
(***************************************************************************)
\* the last event was a move of a pinch with its two touches on the screen
PinchMoved ==
  /\ lastOp.op = "touchmove"
  /\ before.isPinching
  /\ Keys(touches) = pinchTouches

\* distance and midpoint of the two touches of the pinch now
PinchDistance == getDistance(touches[Lo(pinchTouches)], touches[Hi(pinchTouches)])
PinchMidpoint == getMidpoint(touches[Lo(pinchTouches)], touches[Hi(pinchTouches)])

\* clamp(zoom0 * d / d0, 0.1, 10)
PinchZoomOf(zoom0, d, d0) == RMax(Frac(1, 10), RMin(RMul(zoom0, RDiv(d, d0)), R(10)))

\* C33: on every pinch move with finger distance d and midpoint M, for the
\* distance d0 > 0, midpoint M0 and view (pan0, zoom0) captured when the
\* pinch started, the live zoom is clamp(zoom0 * d/d0, 0.1, 10) and the live
\* pan is M - ((M0 - pan0)/zoom0) * zoom, so that the workspace point that
\* was under M0 is under M; what is captured at the start of a pinch is the
\* distance and midpoint of its two touches and the live pan and zoom.
C33_PinchMath ==
  /\ (PinchMoved /\ RLt(R(0), initialPinchState.distance))
       => LET i == initialPinchState IN
          /\ zoom = PinchZoomOf(i.zoom, PinchDistance, i.distance)
          /\ pan = PSub(PinchMidpoint,
                        PScale(PDiv(PSub(i.midpoint, i.pan), i.zoom), zoom))
          /\ PointUnder(PinchMidpoint, pan, zoom) = PointUnder(i.midpoint, i.pan, i.zoom)
  /\ (lastOp.op = "touchstart" /\ ~before.isPinching /\ isPinching)
       => initialPinchState = [distance |-> PinchDistance, midpoint |-> PinchMidpoint,
                               pan |-> pan, zoom |-> zoom, set |-> TRUE]

\* a pinch move that spread the fingers to twice their distance about
\* another midpoint: zoom and pan both changed, the zoom not clamped
C33_Witness ==
  /\ PinchMoved
  /\ RLt(R(0), initialPinchState.distance)
  /\ PinchMidpoint # initialPinchState.midpoint
  /\ zoom = RMul(initialPinchState.zoom, R(2))
  /\ pan # before.pan

\* a pinch move that brought the fingers together left the zoom at 0.1
C33_PinchClamped ==
  /\ PinchMoved
  /\ RLt(R(0), initialPinchState.distance)
  /\ RIsZero(PinchDistance)
  /\ zoom = Frac(1, 10)
  /\ zoom # before.zoom

(***************************************************************************)
(* A pinch whose fingers started on the same point.                        *)
(***************************************************************************)
\* a pinch is in progress whose distance at start was 0
ZeroPinch ==
  isPinching /\ initialPinchState.set /\ RIsZero(initialPinchState.distance)

\* a number that no division by zero produced
Finite(r) == r[2] > 0

\* a move of a pinch that started at distance 0 leaves pan and zoom alone
ZeroPinchMoveSkipped ==
  (ZeroPinch /\ lastOp'.op = "touchmove") => (pan' = pan /\ zoom' = zoom)

\* the release of one of its fingers ends it as it ends any pinch: the
\* controller is idle and the store has the live pan and zoom
ZeroPinchEnds ==
  (ZeroPinch /\ lastOp'.op = "touchend" /\ lastOp'.args[1] \cap pinchTouches # {})
    => (ViewIdle' /\ CurrentViewStateOf(appState') = LiveView)

\* the live pan and zoom are numbers
LiveViewFinite == Finite(zoom') /\ Finite(pan'.x) /\ Finite(pan'.y)

\* C34: when the distance captured at pinch start is 0, every pinch move
\* leaves the live pan and zoom unchanged and divides by no zero, and the
\* gesture ends as usual when a finger is released.
C34_ZeroDistancePinchSkipped ==
  [][ZeroPinchMoveSkipped /\ ZeroPinchEnds /\ LiveViewFinite]_vars

\* the fingers of a pinch that started on one point have moved apart, and
\* pan and zoom are what they were
C34_Witness ==
  /\ PinchMoved
  /\ ZeroPinch
  /\ RLt(R(0), PinchDistance)
  /\ LiveView = [pan |-> before.pan, zoom |-> before.zoom]

\* a pinch has ended with the lift of both fingers and has left the live
\* and the stored view what they were
C34_PinchEndedViewKept ==
  /\ lastOp.op = "touchend"
  /\ before.isPinching
  /\ touches = EmptyObj
  /\ ViewIdle
  /\ CurrentViewStateOf(appState) = before.viewState
  /\ LiveView = before.viewState

(***************************************************************************)
(* Centering in a viewport of no size.                                     *)
(***************************************************************************)
\* the viewport has width 0 or height 0
ZeroSizeViewport == RIsZero(viewportSize.width) \/ RIsZero(viewportSize.height)

\* C35: centerOnPoint with a viewport of width 0 or height 0 skips the
\* computation: the AppState, the pan and zoom of the current workspace
\* included, is what it was, and nothing is thrown.
C35_ZeroViewportSkipsCentering ==
  (lastOp.op \in {"centerOnPoint", "sidebar.cardClick"} /\ ZeroSizeViewport)
    => (appState = before.appState /\ ~thrown)

\* centerOnPoint was called on a point away from the origin in a viewport
\* 1025 wide and 0 high, after the stored pan had been set to (10,-20)
C35_Witness ==
  /\ lastOp.op = "centerOnPoint"
  /\ lastOp.args[1] = P(150, -100)
  /\ viewportSize = Size(1025, 0)
  /\ CurrentViewStateOf(appState).pan = P(10, -20)
  /\ appState = before.appState

(***************************************************************************)
(* The height a resize leaves for the text.                                *)
(***************************************************************************)
\* the least height of a card whose text measures textScrollHeight
HeightForText(textScrollHeight) == RAdd(textScrollHeight, R(CardContentVerticalPadding))

\* C36: every size a resize move writes is at least as high as the text of
\* the card, measured by the sizer element at the width that is written,
\* plus the vertical padding of the card's content, whatever the pointer asks
\* for.
C36_ResizeKeepsTextHeight ==
  [][\A sh \in ScrollHeights :
       (lastOp'.op = "animationFrame" /\ AnimationFrame(sh)) =>
         \A i \in 1..Len(lastOp'.args) :
           /\ RLe(HeightForText(sh), lastOp'.args[i].height)
           /\ \E c \in MountedCards(appState') :
                RLe(HeightForText(sh), CurrentCardsOf(appState')[c].size.height)]_vars

\* a resize move up and to the left, which asks for less than the minimum
\* size, was written 150 wide and 116 high for a text that measures 100, and
\* that is the size of a card that is resizing
C36_Witness ==
  /\ lastOp.op = "animationFrame"
  /\ Len(lastOp.args) = 1
  /\ lastOp.args[1] = [width |-> R(MIN_CARD_WIDTH), height |-> HeightForText(R(100))]
  /\ \E c \in MountedCards(appState) :
       /\ resize[c].isResizing
       /\ CurrentCardsOf(appState)[c].size = lastOp.args[1]

(***************************************************************************)
(* The writers of a card's size.                                           *)
(***************************************************************************)
\* the size of the card c in the store
SizeIn(state, c) == CurrentCardsOf(state)[c].size

\* the last event changed the size of the card c
SizeWritten(c) ==
  /\ c \in MountedCards(appState) \cap MountedCards(before.appState)
  /\ SizeIn(appState, c) # SizeIn(before.appState, c)

\* the events after which the effect of Card that adjusts the height runs
\* with something to do: the end of a resize and the end of an edit
AutoGrowEvents == {"window.mouseup", "window.touchend", "card.blur"}

\* C37: the step that grows a card to its text writes the card's size only
\* when the card is neither resizing nor being edited, and the size of a card
\* that is resizing is written by the animation frames of its resize and by
\* nothing else.
C37_ResizeAndAutoGrowApart ==
  \A c \in DOMAIN resize :
    SizeWritten(c) =>
      \/ /\ lastOp.op = "animationFrame"
         /\ before.resize[c].isResizing
         /\ resize[c].isResizing
      \/ /\ lastOp.op \in AutoGrowEvents
         /\ ~resize[c].isResizing
         /\ c \notin editing

\* the release of the mouse ended the resize of a card, and the card, which
\* is not being edited, grew to the 116 its text needs
C37_Witness ==
  /\ lastOp.op = "window.mouseup"
  /\ \E c \in DOMAIN resize :
       /\ before.resize[c].isResizing
       /\ ~resize[c].isResizing
       /\ c \notin editing
       /\ SizeWritten(c)
       /\ SizeIn(appState, c).height = HeightForText(R(100))

\* an edit of a card ended while the card was resizing, and the size of the
\* card was left alone
C37_BlurWhileResizing ==
  /\ lastOp.op = "card.blur"
  /\ \E c \in DOMAIN resize :
       /\ lastOp.args = <<c>>
       /\ resize[c].isResizing
       /\ ~SizeWritten(c)

(***************************************************************************)
(* The step that grows a card to its text.                                 *)
(***************************************************************************)
\* the step is the end of a resize or of an edit, after which the effect of
\* Card measured sh
AutoGrowStep(sh) ==
  \/ /\ lastOp'.op = "window.mouseup"
     /\ \E button \in {0, 2} : WindowMouseUp(button, sh)
  \/ /\ lastOp'.op = "window.touchend"
     /\ \E changed \in (SUBSET TouchIds) \ {{}} : WindowTouchEnd(changed, sh)
  \/ /\ lastOp'.op = "card.blur"
     /\ \E c \in editing : StopEditing(c, sh)

\* the step grew the card c, whose text measures sh, past the threshold and
\* to what the text needs, and left nothing for the effect to do
GrewToFit(c, sh) ==
  LET old == SizeIn(appState, c)
      new == SizeIn(appState', c)
  IN  /\ new.width = old.width
      /\ RLt(R(AutoGrowThreshold), RSub(HeightForText(sh), old.height))
      /\ RLt(old.height, new.height)
      /\ new.height = HeightForText(sh)
      /\ autoGrow(CardState', c, FALSE, sh) = CardState'

\* C38: the step that grows a card to its text changes the height only when
\* the height the text needs exceeds the card's height by more than 5; it
\* makes the card higher, never lower, and leaves the width; and once it has
\* run, it has nothing more to do for the same measurement of the text.
C38_AutoGrowConverges ==
  [][\A sh \in ScrollHeights :
       AutoGrowStep(sh) =>
         \A c \in MountedCards(appState) \cap MountedCards(appState') :
           SizeIn(appState', c) # SizeIn(appState, c) => GrewToFit(c, sh)]_vars

\* the end of a resize grew a card 100 high to the 116 that its text needs,
\* at the width it had
C38_Witness ==
  /\ lastOp.op = "window.mouseup"
  /\ \E c \in DOMAIN resize :
       /\ before.resize[c].isResizing
       /\ ~resize[c].isResizing
       /\ SizeIn(before.appState, c) = Size(200, 100)
       /\ SizeIn(appState, c) = [width |-> R(200), height |-> HeightForText(R(100))]

====
